---- MODULE Spec2Model ----
(***************************************************************************)
(* A model of the dataflow dispatcher (src/dispatcher/dispatcher.py): the  *)
(* graph builders and the ArciDispatch traversal, one action per builder   *)
(* call and per iteration of the dispatch loop.                            *)
(***************************************************************************)
EXTENDS Integers, Sequences, FiniteSets, TLC

VARIABLES
    nodes,           \* self.nodes (= dmap.node): node id -> attribute dict
    edges,           \* dmap.edge: <<u, v>> -> attribute dict
    default_values,  \* self.default_values: data id -> value
    raises,          \* the policy captured by self.warning
    workflow,        \* self.workflow: [node: id -> attrs, edge: <<u, v>> -> attrs]
    data_output,     \* self.data_output
    dist,            \* self.dist
    visited,         \* self._visited
    targets,         \* self._targets
    cutoff,          \* self._cutoff: <<>> (None) or <<k>>
    wildcards,       \* self._wildcards
    wait_in,         \* self._wait_in
    fringe,          \* _run's heap of <<distance, wait, id>>
    seen,            \* _run's dict of distances to seen nodes
    call,            \* the arguments of the dispatch call in progress
    pc,              \* where the client is: "build", "run", "break", "done",
                     \* "again" (the dispatcher is changed after a dispatch)
    raised,          \* the exception the last call raised ("" when none)
    calls,           \* user callables invoked by the dispatch, in order:
                     \* <<kind, node, "returned" or "raised">>
    popped,          \* <<node, distance>> in the order heappop returned them
    first_out,       \* <<data_output>> the client kept from an earlier dispatch
    caller,          \* the method that started the dispatch in progress:
                     \* "" (the client), "shrink_dsp" or "function"
    shrink,          \* the locals of the shrink_dsp call in progress
    sub_dsp,         \* <<>> or <<the dispatcher the last call returned>>
    sdfun            \* <<>> or <<the SubDispatchFunction the client holds>>

vars == <<nodes, edges, default_values, raises, workflow, data_output, dist,
          visited, targets, cutoff, wildcards, wait_in, fringe, seen, call,
          pc, raised, calls, popped, first_out, caller, shrink, sub_dsp,
          sdfun>>

dsp_vars == <<nodes, edges, default_values, raises>>
run_vars == <<workflow, data_output, dist, visited, targets, cutoff,
              wildcards, wait_in, fringe, seen, call, calls, popped>>
obj_vars == <<caller, shrink, sub_dsp, sdfun>>

-----------------------------------------------------------------------------
(* Bounds of the model.                                                    *)

MaxFuns == 2       \* function nodes a client adds before it dispatches
MaxWeight == 1     \* explicit weights are drawn from -MaxWeight..MaxWeight
ValMod == 2        \* user values are 0..ValMod-1
MaxCutoff == 2     \* a cutoff is drawn from 0..MaxCutoff
MaxIter == 3       \* iterations of the loop of shrink_dsp that are followed
MaxCalls == 3      \* calls of one SubDispatchFunction object

-----------------------------------------------------------------------------
(* Sentinels and plain helpers.                                            *)

START == "start"
SINK == "sink"
NONE == -1
EMPTY == -2

NoAttr == [k \in {} |-> 0]

Get(r, k, d) == IF k \in DOMAIN r THEN r[k] ELSE d

Opt(k, present, v) == IF present THEN k :> v ELSE NoAttr

Range(s) == {s[i] : i \in 1..Len(s)}

Without(f, ks) == [k \in DOMAIN f \ ks |-> f[k]]

RECURSIVE SumSeq(_)
SumSeq(s) == IF s = <<>> THEN 0 ELSE Head(s) + SumSeq(Tail(s))

RECURSIVE SumSet(_, _)
SumSet(f, ks) ==
    IF ks = {} THEN 0
    ELSE LET k == CHOOSE x \in ks : TRUE IN f[k] + SumSet(f, ks \ {k})

RECURSIVE Orders(_)
Orders(S) ==
    IF S = {} THEN {<<>>}
    ELSE UNION {{<<x>> \o o : o \in Orders(S \ {x})} : x \in S}

\* Python's ordering of the node ids (str comparison), as the heap uses it.
SortedIds ==
    <<"Sub-dispatch", "a", "alt", "b", "c", "d", "e",
      "f1", "f1<0>", "f1<1>", "f1<2>", "f2", "f2<0>", "f2<1>", "f2<2>",
      "f3", "f3<0>", "f3<1>", "f3<2>", "f4", "f4<0>", "f4<1>", "f4<2>",
      "f5", "f5<0>", "f5<1>", "f5<2>",
      "sink", "start", "unknown<0>", "unknown<1>">>

IdOrd(n) == CHOOSE i \in 1..Len(SortedIds) : SortedIds[i] = n

BoolOrd(b) == IF b THEN 1 ELSE 0

\* tuple comparison of two heap items <<distance, wait, id>>
FringeLess(x, y) ==
    \/ x[1] < y[1]
    \/ x[1] = y[1] /\ BoolOrd(x[2]) < BoolOrd(y[2])
    \/ x[1] = y[1] /\ x[2] = y[2] /\ IdOrd(x[3]) < IdOrd(y[3])

\* a push that keeps the order of arrival
HeapPushBack(h, x) == Append(h, x)

\* heappush: the heap is kept as the sorted list of its items, so that
\* heappop is Head.
HeapPush(h, x) ==
    LET n == Cardinality({j \in 1..Len(h) : ~FringeLess(x, h[j])})
    IN SubSeq(h, 1, n) \o <<x>> \o SubSeq(h, n + 1, Len(h))

RECURSIVE HeapPushAll(_, _)
HeapPushAll(h, xs) ==
    IF xs = {} THEN h
    ELSE LET x == CHOOSE y \in xs : TRUE
         IN HeapPushAll(HeapPush(h, x), xs \ {x})

-----------------------------------------------------------------------------
(* Graph primitives (networkx DiGraph as the dispatcher uses it).          *)

Succ(E, v) == {w \in {e[2] : e \in DOMAIN E} : <<v, w>> \in DOMAIN E}
Pred(E, v) == {u \in {e[1] : e \in DOMAIN E} : <<u, v>> \in DOMAIN E}

\* the nodes reached from the nodes S along the edges E
RECURSIVE Descendants(_, _)
Descendants(E, S) ==
    LET next == S \cup {e[2] : e \in {x \in E : x[1] \in S}}
    IN IF next = S THEN S ELSE Descendants(E, next)

\* the nodes that lie on a cycle of E
OnCycle(E) ==
    {n \in {e[1] : e \in E} :
       n \in Descendants(E, {e[2] : e \in {x \in E : x[1] = n}})}

\* DiGraph.add_node(n, attr_dict): creates the node or updates its attributes
GraphAddNode(N, n, attr) == (n :> (attr @@ Get(N, n, NoAttr))) @@ N

\* DiGraph.remove_node(n) on a graph [node, edge]
GraphRemoveNode(g, n) ==
    [node |-> Without(g.node, {n}),
     edge |-> Without(g.edge, {e \in DOMAIN g.edge : e[1] = n \/ e[2] = n})]

\* add_edge_fun(workflow): adds the edge with its attributes, and the end
\* nodes when they are new
WfAddEdge(wf, u, v, attr) ==
    [node |-> wf.node @@ (u :> NoAttr) @@ (v :> NoAttr),
     edge |-> (<<u, v>> :> attr) @@ wf.edge]

RECURSIVE WfAddEdges(_, _, _, _)
WfAddEdges(wf, u, vs, attr) ==
    IF vs = {} THEN wf
    ELSE LET v == CHOOSE x \in vs : TRUE
         IN WfAddEdges(WfAddEdge(wf, u, v, attr), u, vs \ {v}, attr)

EmptyGraph == [node |-> NoAttr, edge |-> NoAttr]


-----------------------------------------------------------------------------
(* User callables.  A callable is named by a descriptor; calling it gives  *)
(* [raise |-> exception raised?, res |-> result].                          *)

\* function nodes: "inc" is total, "log" raises on a first argument of 0,
\* "fail" always raises
CallFunction(fun, args) ==
    CASE fun \in {"inc", "short", "scalar"} ->
           [raise |-> FALSE, res |-> (SumSeq(args) + 1) % ValMod]
      [] fun = "log" -> IF args = <<>> \/ args[1] = 0
                        THEN [raise |-> TRUE, res |-> NONE]
                        ELSE [raise |-> FALSE, res |-> args[1] - 1]
      [] OTHER -> [raise |-> TRUE, res |-> NONE]

\* input domains: "pos" accepts a positive first argument
CallDomain(dom, args) ==
    IF args = <<>> THEN [raise |-> TRUE, res |-> FALSE]
    ELSE [raise |-> FALSE, res |-> args[1] > 0]

\* data node aggregators over {predecessor: value}: "sum" adds the
\* estimations, "fail" raises; "bypass" (the SINK's) returns its argument,
\* which no node reads: it stands as 0
CallAggregator(fun, kwargs) ==
    CASE fun = "sum" ->
           [raise |-> FALSE, res |-> SumSet(kwargs, DOMAIN kwargs) % ValMod]
      [] fun = "bypass" -> [raise |-> FALSE, res |-> 0]
      [] OTHER -> [raise |-> TRUE, res |-> NONE]

\* data node callbacks: "cb" returns, "cb_fail" raises
CallCallback(cb, value) == [raise |-> cb # "cb"]

\* how a call ended
Outcome(r) == IF r.raise THEN "raised" ELSE "returned"

\* the results of a call, as the sequence a function of n outputs returns
Results(res, n) == [i \in 1..n |-> (res + i - 1) % ValMod]

\* what a function of n > 1 outputs returns, as zip(o_nds, res) finds it:
\* "short" returns a tuple of n - 1 items, "scalar" a number, which cannot
\* be iterated, the others a tuple of n items
FunctionResult(fun, res, n) ==
    CASE fun = "short" -> [iterable |-> TRUE, items |-> Results(res, n - 1)]
      [] fun = "scalar" -> [iterable |-> FALSE, items |-> <<>>]
      [] OTHER -> [iterable |-> TRUE, items |-> Results(res, n)]

\* SubDispatch objects a function node can hold, by name: the example's
\* (outputs a, b, c as a dict), all the outputs, two outputs as a list, one
\* output as a list
SubDispatches ==
    [sd_dict |-> [outputs |-> <<"a", "b", "c">>, output_type |-> "dict"],
     sd_all |-> [outputs |-> <<"None">>, output_type |-> "all"],
     sd_list |-> [outputs |-> <<"b", "c">>, output_type |-> "list"],
     sd_one |-> [outputs |-> <<"b">>, output_type |-> "list"]]

\* isinstance(fun, SubDispatch)
IsSubDispatch(fun) == fun \in DOMAIN SubDispatches

\* the data outputs of the example's sub-dispatcher, whose one function
\* gives b = a + 1 and c = a - 1, dispatched on the input dictionary i
SubDataOutput(i) ==
    IF "a" \in DOMAIN i
    THEN [a |-> i.a, b |-> (i.a + 1) % ValMod, c |-> (i.a - 1) % ValMod]
    ELSE NoAttr

\* what iterating a selection yields: the values of a tuple, the keys of a
\* dictionary in their order; a single value cannot be iterated
Selection(kind, items) == [raise |-> "", kind |-> kind, items |-> items]

\* selector(keys, it, output_type=...)
selector(keys, it, output_type) ==
    IF output_type = "list"
    THEN IF \E i \in 1..Len(keys) : keys[i] \notin DOMAIN it
         THEN [raise |-> "KeyError", kind |-> "none", items |-> <<>>]
         ELSE IF Len(keys) > 1
         THEN Selection("tuple", [i \in 1..Len(keys) |-> it[keys[i]]])
         ELSE Selection("value", <<it[keys[1]]>>)
    ELSE Selection("dict", SelectSeq(SortedIds,
                       LAMBDA k : k \in DOMAIN it /\ k \in Range(keys)))

\* SubDispatch.__call__ on the dictionaries a parent passes: a value v of
\* the parent stands for the dictionary {'a': v}
SubDispatchCall(sd, args) ==
    LET i == IF args = <<>> THEN NoAttr ELSE [a |-> args[Len(args)]]
        o == SubDataOutput(i)
    IN IF sd.output_type \in {"list", "dict"}
       THEN selector(sd.outputs, o, sd.output_type) @@ [data_output |-> o]
       ELSE Selection("dict", SelectSeq(SortedIds, LAMBDA k : k \in DOMAIN o))
            @@ [data_output |-> o]

\* `w, res = fun(*args)` of _set_function_node_output: the call, then the
\* unpacking of what it returned into two names
UnpackSubDispatch(sd, args) ==
    LET o == SubDispatchCall(sd, args)
    IN IF o.raise # ""
       THEN [raise |-> TRUE, called |-> "raised", res |-> NONE]
       ELSE IF o.kind = "value" \/ Len(o.items) # 2
       THEN [raise |-> TRUE, called |-> "returned", res |-> NONE]
       ELSE [raise |-> FALSE, called |-> "returned", res |-> o.items[2],
             workflow |-> <<o.items[1], o.data_output>>]

-----------------------------------------------------------------------------
(* Builders, as functions of the dispatcher d = [nodes, edges,             *)
(* default_values, err]: err is the exception raised ("" when none).       *)

Dsp == [nodes |-> nodes, edges |-> edges, default_values |-> default_values,
        err |-> ""]

UnknownIds == <<"unknown<0>", "unknown<1>">>

\* a check that takes every id for the id of a data node
IsFunctionIdNever(d, u) == FALSE

\* has_node(u) and node[u]['type'] != 'data' of add_data and add_function
IsFunctionId(d, u) == u \in DOMAIN d.nodes /\ d.nodes[u].type # "data"

\* add_data; data_id "None" asks for a generated id, function / callback
\* "None" and wildcard "None" leave the attribute out
AddData(d, data_id, default_value, wait_inputs, wildcard, function, callback) ==
    LET attr_dict == [type |-> "data", wait_inputs |-> wait_inputs]
                     @@ Opt("function", function # "None", function)
                     @@ Opt("callback", callback # "None", callback)
                     @@ Opt("wildcard", wildcard # "None", wildcard = "True")
        id == IF data_id = "None"
              THEN UnknownIds[CHOOSE i \in 1..Len(UnknownIds) :
                       /\ UnknownIds[i] \notin DOMAIN d.nodes
                       /\ \A j \in 1..(i - 1) : UnknownIds[j] \in DOMAIN d.nodes]
              ELSE data_id
    IN IF data_id # "None" /\ IsFunctionId(d, data_id)
       THEN [d EXCEPT !.err = "ValueError: Invalid data id"]
       ELSE [d EXCEPT
               !.default_values =
                   IF default_value # EMPTY
                   THEN (id :> default_value) @@ d.default_values
                   ELSE Without(d.default_values, {id}),
               !.nodes = GraphAddNode(d.nodes, id, attr_dict)]

\* the loops of add_function over inputs (dir "in") and outputs ("out"):
\* items is the rest of the list of <<data id, dir>>
RECURSIVE AddFunctionEdges(_, _, _, _, _)
AddFunctionEdges(d, fun_id, items, weight_from, weight_to) ==
    IF items = <<>> \/ d.err # "" THEN d
    ELSE
      LET u == Head(items)[1]
          in == Head(items)[2] = "in"
          ew == IF in THEN weight_from ELSE weight_to
          e == IF in THEN <<u, fun_id>> ELSE <<fun_id, u>>
          attr == Opt("weight", u \in DOMAIN ew, Get(ew, u, 0))
      IN IF IsFunctionId(d, u)
         THEN [d EXCEPT
                 !.nodes = Without(d.nodes, {fun_id}),
                 !.edges = Without(d.edges, {x \in DOMAIN d.edges :
                                               x[1] = fun_id \/ x[2] = fun_id}),
                 !.err = IF in THEN "ValueError: Invalid input id"
                         ELSE "ValueError: Invalid output id"]
         ELSE
           LET d1 == IF u \in DOMAIN d.nodes THEN d
                     ELSE AddData(d, u, EMPTY, FALSE, "None", "None", "None")
               d2 == [d1 EXCEPT !.edges = (e :> (attr @@ Get(d1.edges, e, NoAttr)))
                                           @@ d1.edges]
           IN AddFunctionEdges(d2, fun_id, Tail(items), weight_from, weight_to)

\* '%s<%d>' % (function_name, n)
Numbered(name, n) == name \o "<" \o <<"0", "1", "2", "3", "4">>[n + 1] \o ">"

\* the first unused id among name, name<0>, name<1>, ...
FunId(N, name) ==
    IF name \notin DOMAIN N THEN name
    ELSE Numbered(name, CHOOSE n \in 0..4 :
                          /\ Numbered(name, n) \notin DOMAIN N
                          /\ \A m \in 0..(n - 1) : Numbered(name, m) \in DOMAIN N)

\* add_function; inputs / outputs <<"None">> stand for the omitted
\* argument, input_domain "None" and weight <<>> for None
AddFunction(d, function_id, function, inputs, outputs, input_domain, weight, weight_from, weight_to) ==
    LET d0 == IF inputs = <<"None">> /\ START \notin DOMAIN d.nodes
              THEN AddData(d, START, NONE, FALSE, "None", "None", "None")
              ELSE d
        ins == IF inputs = <<"None">> THEN <<START>> ELSE inputs
        d1 == IF outputs = <<"None">> /\ SINK \notin DOMAIN d0.nodes
              THEN AddData(d0, SINK, EMPTY, TRUE, "None", "bypass", "None")
              ELSE d0
        outs == IF outputs = <<"None">> THEN <<SINK>> ELSE outputs
        attr_dict == [type |-> "function", inputs |-> ins, outputs |-> outs,
                      function |-> function, wait_inputs |-> TRUE]
                     @@ Opt("input_domain", input_domain # "None", input_domain)
                     @@ Opt("weight", weight # <<>>, IF weight # <<>> THEN weight[1] ELSE 0)
        fun_id == FunId(d1.nodes, function_id)
        d2 == [d1 EXCEPT !.nodes = GraphAddNode(d1.nodes, fun_id, attr_dict)]
        items == [i \in 1..Len(ins) |-> <<ins[i], "in">>]
                 \o [i \in 1..Len(outs) |-> <<outs[i], "out">>]
    IN AddFunctionEdges(d2, fun_id, items, weight_from, weight_to)

-----------------------------------------------------------------------------
(* The dispatch engine.                                                    *)

\* a handler that logs whatever the policy
WarningLogs(msg) == [status |-> "false", msg |-> ""]

\* _warning(raises): the status a soft failure ends the node with
Warning(msg) == IF raises THEN [status |-> "raise", msg |-> "ValueError: " \o msg]
                ELSE [status |-> "false", msg |-> ""]

\* a length that leaves the weight of the destination node out
EdgeLengthOfEdge(edge, node_out) == Get(edge, "weight", 1)

\* _edge_length
EdgeLength(edge, node_out) == Get(edge, "weight", 1) + Get(node_out, "weight", 0)

\* a cutoff that is never applied
CheckCutoffNever(co, distance) == FALSE

\* _check_cutoff, for the cutoff co (<<>> is None)
CheckCutoff(co, distance) == co # <<>> /\ distance > co[1]

\* a gate that lets every node through
CheckWaitInputFlagOff(wi, wait_flag, node_id, vis) == FALSE

\* _check_wait_input_flag, for the overrides wi and the visited set vis
CheckWaitInputFlag(wi, wait_flag, node_id, vis) ==
    /\ IF wi # NoAttr THEN Get(wi, node_id, wait_flag) ELSE wait_flag
    /\ Pred(edges, node_id) \ vis # {}

\* a check that never ends the loop
CheckTargetsNever(tg, node_id) == FALSE

\* _check_targets: the node is the last target left
CheckTargets(tg, node_id) == node_id \in tg /\ tg \ {node_id} = {}

\* _get_initial_values
GetInitialValues(inputs, no_call) ==
    IF no_call THEN [k \in DOMAIN default_values \cup DOMAIN inputs |-> NONE]
    ELSE inputs @@ default_values

\* wildcards that are never set
SetWildcardsNone(wildcard, initial, outputs) == {}

\* _set_wildcards, called by _init_run with the initial values
SetWildcards(wildcard, initial, outputs) ==
    IF wildcard /\ outputs # {}
    THEN {u \in DOMAIN initial \cap outputs : Get(nodes[u], "wildcard", TRUE)}
    ELSE {}

\* node[u] of _set_wildcards raises KeyError on an input that is a target
\* and no node
SetWildcardsRaises(wildcard, initial, outputs) ==
    wildcard /\ outputs # {} /\ (DOMAIN initial \cap outputs) \ DOMAIN nodes # {}

\* the loop of _init_workflow over the initial values, in the order vs;
\* st = [wf, vis, seen, fringe]
RECURSIVE InitWorkflowLoop(_, _, _, _, _, _)
InitWorkflowLoop(st, vs, initial, wc, co, no_call) ==
    IF vs = <<>> THEN st
    ELSE
      LET v == Head(vs)
          value == IF no_call THEN NoAttr ELSE [value |-> initial[v]]
          wf1 == WfAddEdge(st.wf, START, v, value)
          vis1 == st.vis \cup {v}
          succ == Succ(edges, v)
          vw_dist(w) == EdgeLength(edges[<<v, w>>], nodes[w])
          pushed == {w \in succ : ~(CheckCutoff(co, vw_dist(w))
                                    \/ CheckWaitInputFlag(wait_in, TRUE, w, vis1))}
          next ==
            IF v \notin DOMAIN nodes THEN st
            ELSE IF v \in wc
            THEN [wf |-> WfAddEdges(wf1, v, succ, value),
                  vis |-> vis1,
                  seen |-> [w \in pushed |-> vw_dist(w)] @@ st.seen,
                  fringe |-> HeapPushAll(st.fringe,
                                 {<<vw_dist(w), TRUE, w>> : w \in pushed})]
            ELSE IF ~CheckWaitInputFlag(wait_in, nodes[v].wait_inputs, v, st.vis)
            THEN [st EXCEPT !.wf = wf1,
                            !.seen = (v :> 0) @@ st.seen,
                            !.fringe = HeapPush(st.fringe,
                                           <<0, nodes[v].wait_inputs, v>>)]
            ELSE [st EXCEPT !.wf = wf1]
      IN InitWorkflowLoop(next, Tail(vs), initial, wc, co, no_call)

\* _init_workflow
InitWorkflow(order, initial, wc, co, no_call) ==
    InitWorkflowLoop([wf |-> [node |-> START :> [type |-> "start"], edge |-> NoAttr],
                      vis |-> {START},
                      seen |-> START :> -1,
                      fringe |-> <<>>],
                     order, initial, wc, co, no_call)

\* estimations whose ties go to the greater id
GetNodeEstimationsLast(node_attr, node_id, dist1) ==
    LET estimations == Pred(workflow.edge, node_id)
        cand == estimations \ {START}
        d(k) == dist1[k] + EdgeLength(edges[<<k, node_id>>], node_attr)
        best == CHOOSE k \in cand : \A o \in cand \ {k} :
                    d(k) < d(o) \/ (d(k) = d(o) /\ IdOrd(k) > IdOrd(o))
        multi == /\ Cardinality(estimations) > 1
                 /\ ~Get(wait_in, node_id, node_attr.wait_inputs)
    IN IF multi /\ \E k \in cand : <<k, node_id>> \notin DOMAIN edges
       THEN [err |-> TRUE, est |-> {}, wf |-> workflow]
       ELSE IF multi
       THEN [err |-> FALSE, est |-> {best},
             wf |-> [workflow EXCEPT !.edge =
                        Without(@, {<<o, node_id>> : o \in cand \ {best}})]]
       ELSE [err |-> FALSE, est |-> estimations, wf |-> workflow]

\* _get_node_estimations: [est |-> the predecessors kept, wf |-> workflow];
\* err when edg[k][node_id] raises KeyError, the estimation of k coming
\* over an edge that the dispatcher map does not have
GetNodeEstimations(node_attr, node_id, dist1) ==
    LET estimations == Pred(workflow.edge, node_id)
        cand == estimations \ {START}
        d(k) == dist1[k] + EdgeLength(edges[<<k, node_id>>], node_attr)
        best == CHOOSE k \in cand : \A o \in cand \ {k} :
                    d(k) < d(o) \/ (d(k) = d(o) /\ IdOrd(k) < IdOrd(o))
        multi == /\ Cardinality(estimations) > 1
                 /\ ~Get(wait_in, node_id, node_attr.wait_inputs)
    IN IF multi /\ \E k \in cand : <<k, node_id>> \notin DOMAIN edges
       THEN [err |-> TRUE, est |-> {}, wf |-> workflow]
       ELSE IF multi
       THEN [err |-> FALSE, est |-> {best},
             wf |-> [workflow EXCEPT !.edge =
                        Without(@, {<<o, node_id>> : o \in cand \ {best}})]]
       ELSE [err |-> FALSE, est |-> estimations, wf |-> workflow]

NotNone(v) == v # NONE

\* a callback whose failure is handled as a failure of the node
CallbackAbortsAlways(cb_fails) == cb_fails

\* the except clause of the callback: self.warning(msg) raises under
\* raises = True; otherwise it logs and the method goes on
CallbackAborts(cb_fails) == cb_fails /\ raises

\* a no-call branch that records nothing for the node
NoCallDataOutputSkipped(node_id) == data_output

\* `self.data_output[node_id] = NONE` of the no-call branch
NoCallDataOutput(node_id) == (node_id :> NONE) @@ data_output

\* _set_data_node_output; first is succ_fun[0].  The result is
\* [status, msg, wf, out, calls]: status "ok" (True), "false" (False) or
\* "raise" (an exception leaves _run, msg)
SetDataNodeOutput(node_id, node_attr, no_call, dist1, vis1, first) ==
    LET ge == GetNodeEstimations(node_attr, node_id, dist1)
        est == ge.est
        has_fun == "function" \in DOMAIN node_attr
        use_fun == node_attr.wait_inputs \/ has_fun
        kwargs == [k \in est |-> ge.wf.edge[<<k, node_id>>].value]
        agg == IF has_fun THEN CallAggregator(node_attr.function, kwargs)
               ELSE [raise |-> TRUE, res |-> NONE]
        calls1 == IF use_fun /\ has_fun
                  THEN Append(calls, <<"aggregator", node_id, Outcome(agg)>>)
                  ELSE calls
        value == IF use_fun THEN agg.res ELSE kwargs[CHOOSE k \in est : TRUE]
        has_cb == "callback" \in DOMAIN node_attr
        cb_fails == has_cb /\ CallCallback(node_attr.callback, value).raise
        \* the callback is called with value, and finds data_output as it
        \* is before the assignment that follows the call
        calls2 == IF has_cb
                  THEN Append(calls1, <<"callback", node_id,
                                        IF cb_fails THEN "raised" ELSE "returned",
                                        value, node_id \in DOMAIN data_output>>)
                  ELSE calls1
        succ_fun == Succ(edges, node_id)
        attr == IF no_call THEN NoAttr ELSE [value |-> value]
        wf_out == IF succ_fun # {} /\ first \notin vis1
                  THEN WfAddEdges(ge.wf, node_id, succ_fun, attr) ELSE ge.wf
        base == [status |-> "ok", msg |-> "", wf |-> ge.wf, out |-> data_output,
                 calls |-> calls]
    IN IF ge.err
       THEN [base EXCEPT !.status = "raise", !.msg = "KeyError"]
       ELSE IF no_call
       THEN [base EXCEPT !.wf = wf_out, !.out = NoCallDataOutput(node_id)]
       ELSE IF use_fun /\ agg.raise
       THEN Warning("Estimation error at data node") @@ [base EXCEPT !.calls = calls1]
       ELSE IF ~use_fun /\ est = {}
       THEN [base EXCEPT !.status = "raise", !.msg = "IndexError"]
       ELSE IF CallbackAborts(cb_fails)
       THEN Warning("Callback error at data node") @@ [base EXCEPT !.calls = calls2]
       ELSE [base EXCEPT !.wf = wf_out, !.calls = calls2,
                         !.out = IF value # NONE
                                 THEN (node_id :> value) @@ data_output
                                 ELSE data_output]

\* an engine that runs a function whatever its input_domain answers
DomainNeverRejects(node_attr, args) == FALSE

\* `'input_domain' in node_attr and not node_attr['input_domain'](*args)`
DomainRejects(node_attr, args) ==
    /\ "input_domain" \in DOMAIN node_attr
    /\ ~CallDomain(node_attr.input_domain, args).res

\* a rejection that is handled as a failure of the node
NotInDomainWarns == Warning("Estimation error at function node")

\* `return False` of a function whose args are not respecting the domain
NotInDomain == [status |-> "false", msg |-> ""]

\* a no-call branch that returns after the edge to the first output
NoCallEdgesFirst(node_id, output_nodes) ==
    WfAddEdge(workflow, node_id,
              CHOOSE u \in output_nodes :
                  \A w \in output_nodes : IdOrd(u) <= IdOrd(w),
              NoAttr)

\* `if no_call` of _set_function_node_output: an edge without value to
\* every output that can still be estimated
NoCallEdges(node_id, output_nodes) ==
    WfAddEdges(workflow, node_id, output_nodes, NoAttr)

\* output nodes that include the ones already estimated
OutputNodesAll(o_nds, dist1) == {u \in Range(o_nds) : u \in DOMAIN nodes}

\* the outputs of a function that can still be estimated: the successors
\* that have no distance yet
OutputNodes(o_nds, dist1) ==
    {u \in Range(o_nds) : u \notin DOMAIN dist1 /\ u \in DOMAIN nodes}

\* _set_function_node_output, with the same result
SetFunctionNodeOutput(node_id, node_attr, no_call, dist1) ==
    LET o_nds == node_attr.outputs
        inputs == node_attr.inputs
        output_nodes == OutputNodes(o_nds, dist1)
        in_wf == node_id \in DOMAIN workflow.node
        have_args == in_wf /\ \A i \in 1..Len(inputs) :
                         <<inputs[i], node_id>> \in DOMAIN workflow.edge
        args == SelectSeq([i \in 1..Len(inputs) |->
                              workflow.edge[<<inputs[i], node_id>>].value], NotNone)
        has_dom == "input_domain" \in DOMAIN node_attr
        dom == CallDomain(node_attr.input_domain, args)
        calls1 == IF has_dom
                  THEN Append(calls, <<"input_domain", node_id, Outcome(dom)>>)
                  ELSE calls
        is_sub == IsSubDispatch(node_attr.function)
        fun == IF is_sub
               THEN UnpackSubDispatch(SubDispatches[node_attr.function], args)
               ELSE CallFunction(node_attr.function, args)
        calls2 == Append(calls1, <<"function", node_id,
                                   IF is_sub THEN fun.called ELSE Outcome(fun)>>)
        ret == IF Len(o_nds) > 1
               THEN FunctionResult(node_attr.function, fun.res, Len(o_nds))
               ELSE [iterable |-> TRUE, items |-> <<fun.res>>]
        res == ret.items
        \* zip(o_nds, res) stops at the shorter of the two
        est == {i \in 1..Len(o_nds) : i <= Len(res) /\ o_nds[i] \in output_nodes}
        base == [status |-> "ok", msg |-> "", wf |-> workflow, out |-> data_output,
                 calls |-> calls]
    IN IF output_nodes = {}
       THEN IF in_wf
            THEN [base EXCEPT !.status = "false",
                              !.wf = GraphRemoveNode(workflow, node_id)]
            ELSE [base EXCEPT !.status = "raise", !.msg = "NetworkXError"]
       ELSE IF no_call
       THEN [base EXCEPT !.wf = NoCallEdges(node_id, output_nodes)]
       ELSE IF ~have_args
       THEN [base EXCEPT !.status = "raise", !.msg = "KeyError"]
       ELSE IF has_dom /\ dom.raise
       THEN Warning("Estimation error at function node")
            @@ [base EXCEPT !.calls = calls1]
       ELSE IF DomainRejects(node_attr, args)
       THEN NotInDomain @@ [base EXCEPT !.calls = calls1]
       ELSE IF fun.raise
       THEN Warning("Estimation error at function node")
            @@ [base EXCEPT !.calls = calls2]
       ELSE IF ~ret.iterable
       THEN [base EXCEPT !.status = "raise", !.msg = "TypeError", !.calls = calls2]
       ELSE [base EXCEPT
               !.calls = calls2,
               !.wf = [node |-> Opt(node_id, is_sub,
                                    IF is_sub THEN [workflow |-> fun.workflow]
                                    ELSE NoAttr)
                                @@ workflow.node
                                @@ [k \in {o_nds[i] : i \in est} |-> NoAttr],
                       edge |-> [e \in {<<node_id, o_nds[i]>> : i \in est} |->
                                   [value |-> res[CHOOSE i \in est :
                                        /\ o_nds[i] = e[2]
                                        /\ \A j \in est : o_nds[j] = e[2] => j <= i]]]
                                @@ workflow.edge]]

\* _set_node_output
SetNodeOutput(node_id, no_call, dist1, vis1, first) ==
    IF nodes[node_id].type = "data"
    THEN SetDataNodeOutput(node_id, nodes[node_id], no_call, dist1, vis1, first)
    ELSE SetFunctionNodeOutput(node_id, nodes[node_id], no_call, dist1)

-----------------------------------------------------------------------------
(* The state after Dispatcher(raises=...).                                 *)

\* the locals of shrink_dsp before any call of it
NoShrink == [inputs |-> {}, mapping |-> TRUE, outputs |-> <<>>,
             cutoff |-> <<>>, edges |-> {}, n |-> 0]

NoCall == [inputs |-> NoAttr, outputs |-> {}, wildcard |-> FALSE,
           no_call |-> FALSE, initial |-> NoAttr]

Init ==
    /\ nodes = NoAttr
    /\ edges = NoAttr
    /\ default_values = NoAttr
    /\ raises \in BOOLEAN
    /\ workflow = EmptyGraph
    /\ data_output = NoAttr
    /\ dist = NoAttr
    /\ visited = {}
    /\ targets = {}
    /\ cutoff = <<>>
    /\ wildcards = {}
    /\ wait_in = NoAttr
    /\ fringe = <<>>
    /\ seen = NoAttr
    /\ call = NoCall
    /\ pc = "build"
    /\ raised = ""
    /\ calls = <<>>
    /\ popped = <<>>
    /\ first_out = <<>>
    /\ caller = ""
    /\ shrink = NoShrink
    /\ sub_dsp = <<>>
    /\ sdfun = <<>>

-----------------------------------------------------------------------------
(* Builder calls of the client.                                            *)

FunctionNodes == {n \in DOMAIN nodes : nodes[n].type = "function"}

\* the outcome of a builder call that leaves the dispatcher d
Built(d) ==
    /\ nodes' = d.nodes
    /\ edges' = d.edges
    /\ default_values' = d.default_values
    /\ raised' = d.err
    /\ UNCHANGED <<raises, run_vars, obj_vars>>

add_data(data_id, default_value, wait_inputs, wildcard, function, callback) ==
    /\ Built(AddData(Dsp, data_id, default_value, wait_inputs, wildcard,
                     function, callback))

add_function(function_id, function, inputs, outputs, input_domain, weight, weight_from, weight_to) ==
    /\ Cardinality(FunctionNodes) < MaxFuns
    /\ Built(AddFunction(Dsp, function_id, function, inputs, outputs,
                         input_domain, weight, weight_from, weight_to))

-----------------------------------------------------------------------------
(* dispatch, in three steps: the start (_init_run and _init_workflow), one *)
(* iteration of the loop of _run, and the end of _run with the return.     *)

\* an exception leaves dispatch: its frame (fringe, seen) is gone
Raise(msg) ==
    /\ pc' = "done"
    /\ raised' = msg
    /\ fringe' = <<>>
    /\ seen' = NoAttr

\* an exception leaves the frame of the calling method as well; a normal
\* return goes back to it
Unwind == caller' = IF raised' # "" THEN "" ELSE caller

\* dispatch(inputs, outputs, cutoff, wildcard, no_call): dsp = self,
\* _init_run, _init_workflow
DispatchStart(inputs, outputs, co, wildcard, no_call) ==
    LET initial == GetInitialValues(inputs, no_call)
        wc == SetWildcards(wildcard, initial, outputs)
    IN /\ call' = [inputs |-> inputs, outputs |-> outputs, wildcard |-> wildcard,
                   no_call |-> no_call, initial |-> initial]
       /\ targets' = outputs
       /\ cutoff' = co
       /\ calls' = <<>>
       /\ popped' = <<>>
       /\ IF SetWildcardsRaises(wildcard, initial, outputs)
          THEN /\ Raise("KeyError")
               /\ wildcards' = {}
               /\ UNCHANGED <<workflow, data_output, dist, visited>>
          ELSE \E order \in Orders(DOMAIN initial) :
                 LET st == InitWorkflow(order, initial, wc, co, no_call)
                 IN /\ wildcards' = wc
                    /\ workflow' = st.wf
                    /\ data_output' = NoAttr
                    /\ visited' = st.vis
                    /\ dist' = START :> -1
                    /\ seen' = st.seen
                    /\ fringe' = st.fringe
                    /\ pc' = "run"
                    /\ raised' = ""
       /\ Unwind
       /\ UNCHANGED <<dsp_vars, wait_in, first_out, shrink, sub_dsp, sdfun>>

\* succ_fun[0] of _set_data_node_output: the successors come in the order
\* of a dict, any of them may be the first
FirstChoices(v) ==
    IF nodes[v].type = "data" /\ Succ(edges, v) # {} THEN Succ(edges, v)
    ELSE {START}

\* a loop that reports no contradictory path
ContradictoryNone(v, d, dist1, vis1) == {}

\* the successors of v, popped at distance d, at which the loop of _run
\* raises: they are estimated, and reached at a smaller distance
Contradictory(v, d, dist1, vis1) ==
    {w \in Succ(edges, v) :
       LET vw_d == d + EdgeLength(edges[<<v, w>>], nodes[w])
       IN /\ ~(\/ CheckCutoff(cutoff, vw_d)
               \/ CheckWaitInputFlag(wait_in, nodes[w].wait_inputs, w, vis1))
          /\ w \in DOMAIN dist1
          /\ vw_d < dist1[w]}

\* the relaxation that pushes a successor whatever distance it was seen at
RelaxAgain(v, d, dist1, vis1, rest) ==
    LET succ == Succ(edges, v)
        vw_d(w) == d + EdgeLength(edges[<<v, w>>], nodes[w])
        pass(w) == \/ CheckCutoff(cutoff, vw_d(w))
                   \/ CheckWaitInputFlag(wait_in, nodes[w].wait_inputs, w, vis1)
        pushed == {w \in succ : ~pass(w) /\ w \notin DOMAIN dist1}
    IN [err |-> Contradictory(v, d, dist1, vis1) # {},
        seen |-> [w \in pushed |-> vw_d(w)] @@ seen,
        fringe |-> HeapPushAll(rest, {<<vw_d(w), nodes[w].wait_inputs, w>> :
                                          w \in pushed})]

\* the relaxation of the successors of v, popped at distance d:
\* [err |-> the loop raises, seen, fringe]
Relax(v, d, dist1, vis1, rest) ==
    LET succ == Succ(edges, v)
        vw_d(w) == d + EdgeLength(edges[<<v, w>>], nodes[w])
        pass(w) == \/ CheckCutoff(cutoff, vw_d(w))
                   \/ CheckWaitInputFlag(wait_in, nodes[w].wait_inputs, w, vis1)
        pushed == {w \in succ : /\ ~pass(w)
                                /\ w \notin DOMAIN dist1
                                /\ (w \notin DOMAIN seen \/ vw_d(w) < seen[w])}
    IN [err |-> Contradictory(v, d, dist1, vis1) # {},
        seen |-> [w \in pushed |-> vw_d(w)] @@ seen,
        fringe |-> HeapPushAll(rest, {<<vw_d(w), nodes[w].wait_inputs, w>> :
                                          w \in pushed})]

\* one iteration of the while loop of _run
RunStep ==
    /\ pc = "run"
    /\ fringe # <<>>
    /\ LET d == Head(fringe)[1]
           v == Head(fringe)[3]
           dist1 == (v :> d) @@ dist
           vis1 == visited \cup {v}
       IN \E first \in FirstChoices(v) :
            LET r == SetNodeOutput(v, call.no_call, dist1, vis1, first)
                rx == Relax(v, d, dist1, vis1, Tail(fringe))
            IN /\ dist' = dist1
               /\ visited' = vis1
               /\ popped' = Append(popped, <<v, d>>)
               /\ workflow' = r.wf
               /\ data_output' = r.out
               /\ calls' = r.calls
               /\ CASE r.status = "raise" ->
                         /\ Raise(r.msg)
                         /\ UNCHANGED targets
                    [] r.status = "false" ->
                         /\ fringe' = Tail(fringe)
                         /\ UNCHANGED <<seen, targets, pc, raised>>
                    [] r.status = "ok" /\ CheckTargets(targets, v) ->
                         /\ targets' = targets \ {v}
                         /\ fringe' = Tail(fringe)
                         /\ pc' = "break"
                         /\ UNCHANGED <<seen, raised>>
                    [] OTHER ->
                         /\ targets' = targets \ {v}
                         /\ IF rx.err
                            THEN Raise("ValueError: Contradictory paths found: negative weights?")
                            ELSE /\ seen' = rx.seen
                                 /\ fringe' = rx.fringe
                                 /\ UNCHANGED <<pc, raised>>
    /\ Unwind
    /\ UNCHANGED <<dsp_vars, cutoff, wildcards, wait_in, call, first_out,
                   shrink, sub_dsp, sdfun>>

\* inputs[k] of dispatch works on a dict; shrink_dsp also hands dispatch
\* the list it was given and, from its second iteration on, a set
InputsIsDict == caller # "shrink_dsp" \/ shrink.mapping

RECURSIVE RemoveNodes(_, _)
RemoveNodes(g, ns) ==
    IF ns = {} THEN g
    ELSE LET n == CHOOSE x \in ns : TRUE
         IN RemoveNodes(GraphRemoveNode(g, n), ns \ {n})

\* a return that leaves the inputs that are no nodes out
OutDspNodesDropped(out_dsp_nodes) == data_output

\* data_outputs.update({k: inputs[k] for k in out_dsp_nodes})
OutDspNodesAdded(out_dsp_nodes) ==
    [k \in out_dsp_nodes |-> call.inputs[k]] @@ data_output

\* the end of _run (the unused functions leave the workflow) and of
\* dispatch (the inputs that are no nodes pass through)
RunEnd ==
    /\ pc = "break" \/ (pc = "run" /\ fringe = <<>>)
    /\ caller # "function"
    /\ LET unused == {n \in DOMAIN workflow.node \ visited :
                         nodes[n].type = "function"}
           out_dsp_nodes == DOMAIN call.initial \ DOMAIN nodes
           out == IF call.inputs # NoAttr
                  THEN OutDspNodesAdded(out_dsp_nodes)
                  ELSE data_output
       IN /\ workflow' = RemoveNodes(workflow, unused)
          /\ CASE call.inputs # NoAttr /\ out_dsp_nodes # {} /\ ~InputsIsDict ->
                    /\ raised' = "TypeError"
                    /\ UNCHANGED data_output
               [] call.inputs # NoAttr /\ out_dsp_nodes \ DOMAIN call.inputs # {} ->
                    /\ raised' = "KeyError"
                    /\ UNCHANGED data_output
               [] OTHER ->
                    /\ raised' = ""
                    /\ data_output' = out
    /\ pc' = "done"
    /\ fringe' = <<>>
    /\ seen' = NoAttr
    /\ Unwind
    /\ UNCHANGED <<dsp_vars, dist, visited, targets, cutoff, wildcards, wait_in,
                   call, calls, popped, first_out, shrink, sub_dsp, sdfun>>

-----------------------------------------------------------------------------
(* shrink_dsp and get_sub_dsp_from_workflow.  A dispatcher the methods     *)
(* return is a record [nodes, edges, default_values]; it is built by       *)
(* self.__class__(), so that its policy is raises = False.                 *)

\* self.__class__(): the empty dispatcher
EmptyDsp == [nodes |-> NoAttr, edges |-> NoAttr, default_values |-> NoAttr]

\* a graph with the edges es and their end nodes (DiGraph.add_edges_from)
GraphOfEdges(es) ==
    [node |-> [n \in {e[1] : e \in es} \cup {e[2] : e \in es} |-> NoAttr],
     edge |-> [e \in es |-> NoAttr]]

\* the family of get_sub_dsp_from_workflow with reverse=True: the nodes
\* the breadth-first search reaches from family along the predecessors in
\* the graph g, START left out
RECURSIVE Family(_, _)
Family(g, family) ==
    LET new == (UNION {Pred(g.edge, p) : p \in family} \ {START}) \ family
    IN IF new = {} THEN family ELSE Family(g, family \cup new)

\* get_sub_dsp_from_workflow(sources, graph, reverse=True) on self
GetSubDspFromWorkflow(sources, graph) ==
    LET g == IF DOMAIN graph.node = {} THEN workflow ELSE graph
        family == Family(g, sources \cap DOMAIN nodes \cap DOMAIN g.node)
        es == {e \in DOMAIN g.edge : e[2] \in family /\ e[1] # START}
    IN [nodes |-> [n \in family |-> nodes[n]],
        edges |-> [e \in es |-> edges[e]],
        default_values |-> [n \in family \cap DOMAIN default_values |->
                                default_values[n]]]

\* _set_wait_in: the outputs of the functions with a domain and the
\* waiting data nodes wait
SetWaitIn ==
    LET domain_outs ==
          UNION {Range(nodes[n].outputs) :
                   n \in {k \in DOMAIN nodes : /\ nodes[k].type = "function"
                                               /\ "input_domain" \in DOMAIN nodes[k]}}
        waiting == {n \in DOMAIN nodes :
                      nodes[n].type = "data" /\ nodes[n].wait_inputs}
    IN [n \in domain_outs \cup waiting |-> TRUE]

\* the for loop at the top of the while loop of shrink_dsp: the inputs do
\* not wait
ClearWaitIn(wi, inputs) ==
    [k \in DOMAIN wi |-> IF wi[k] /\ k \in inputs THEN FALSE ELSE wi[k]]

\* an end of shrink_dsp that takes every node for the outputs left unset
ShrinkReturnAll(outputs, bfs_graph) ==
    GetSubDspFromWorkflow(IF outputs = <<>> THEN DOMAIN nodes ELSE outputs[1],
                          bfs_graph)

\* the end of shrink_dsp: the sub-dispatcher of the outputs (<<>> is None)
\* in the graph bfs_graph, or the empty dispatcher
ShrinkReturn(outputs, bfs_graph) ==
    IF outputs # <<>> /\ outputs[1] # {}
    THEN GetSubDspFromWorkflow(outputs[1], bfs_graph)
    ELSE EmptyDsp

\* shrink_dsp(inputs, outputs, cutoff) up to its first dispatch; inputs is
\* the set of the keys it was given, mapping tells whether it came as a
\* dict, outputs is <<>> (None) or <<set>>
ShrinkStart(inputs, mapping, outputs, co) ==
    /\ shrink' = [inputs |-> inputs, mapping |-> mapping, outputs |-> outputs,
                  cutoff |-> co, edges |-> {},
                  n |-> IF inputs # {} THEN 1 ELSE 0]
    /\ raised' = ""
    /\ IF inputs # {}
       THEN /\ wait_in' = ClearWaitIn(SetWaitIn, inputs)
            /\ caller' = "shrink_dsp"
            /\ pc' = "shrink"
            /\ UNCHANGED sub_dsp
       ELSE /\ wait_in' = NoAttr
            /\ caller' = ""
            /\ pc' = "done"
            /\ sub_dsp' = <<ShrinkReturn(outputs, [node |-> nodes, edge |-> edges])>>
    /\ UNCHANGED <<dsp_vars, workflow, data_output, dist, visited, targets,
                   cutoff, wildcards, fringe, seen, call, calls, popped>>

\* wf, o = self.dispatch(inputs, outputs, cutoff, True, True) of the loop
\* (the values of the inputs play no part in a no-call dispatch)
ShrinkDispatch ==
    /\ pc = "shrink"
    /\ DispatchStart([k \in shrink.inputs |-> NONE],
                     IF shrink.outputs = <<>> THEN {} ELSE shrink.outputs[1],
                     shrink.cutoff, TRUE, TRUE)

\* the rest of an iteration of the while loop of shrink_dsp, after the
\* dispatch returned: the loop goes on with the nodes seen and not
\* visited as further inputs, or shrink_dsp returns
ShrinkLoop ==
    /\ pc = "done"
    /\ caller = "shrink_dsp"
    /\ LET es == shrink.edges \cup DOMAIN workflow.edge
           n_d == DOMAIN workflow.node \ visited
           outs == IF shrink.outputs = <<>> THEN <<DOMAIN data_output>>
                   ELSE shrink.outputs
       IN IF n_d = {}
          THEN /\ shrink' = [shrink EXCEPT !.edges = es]
               /\ wait_in' = NoAttr
               /\ sub_dsp' = <<ShrinkReturn(outs, GraphOfEdges(es))>>
               /\ caller' = ""
               /\ UNCHANGED pc
          ELSE /\ shrink.n < MaxIter
               /\ shrink' = [shrink EXCEPT !.edges = es,
                                           !.inputs = n_d \cup shrink.inputs,
                                           !.mapping = FALSE,
                                           !.n = shrink.n + 1]
               /\ wait_in' = ClearWaitIn(wait_in, n_d \cup shrink.inputs)
               /\ pc' = "shrink"
               /\ UNCHANGED <<caller, sub_dsp>>
    /\ UNCHANGED <<dsp_vars, workflow, data_output, dist, visited, targets,
                   cutoff, wildcards, fringe, seen, call, calls, popped, raised,
                   first_out, sdfun>>

\* the client goes on with the dispatcher the last call returned: a new
\* object, with the state __init__ gives it
UseSubDsp ==
    /\ nodes' = sub_dsp[1].nodes
    /\ edges' = sub_dsp[1].edges
    /\ default_values' = sub_dsp[1].default_values
    /\ raises' = FALSE
    /\ workflow' = EmptyGraph
    /\ data_output' = NoAttr
    /\ dist' = NoAttr
    /\ visited' = {}
    /\ targets' = {}
    /\ cutoff' = <<>>
    /\ wildcards' = {}
    /\ wait_in' = NoAttr
    /\ fringe' = <<>>
    /\ seen' = NoAttr
    /\ call' = NoCall
    /\ raised' = ""
    /\ sub_dsp' = <<>>
    /\ UNCHANGED <<calls, popped, caller, shrink, sdfun>>

-----------------------------------------------------------------------------
(* The clients.  A client declares data nodes, adds functions of the       *)
(* catalog below and dispatches.                                           *)

Shape ==
    [f1 |-> [inputs |-> <<"a">>, outputs |-> <<"c">>],
     f2 |-> [inputs |-> <<"b">>, outputs |-> <<"c">>],
     f3 |-> [inputs |-> <<"c">>, outputs |-> <<"d">>],
     f4 |-> [inputs |-> <<"a", "b">>, outputs |-> <<"c", "d">>],
     f5 |-> [inputs |-> <<"c">>, outputs |-> <<"a", "c">>]]

\* the inputs of the clients: 0 for "a", or a value for "a" and 1 for "b"
InputMaps ==
    {[a |-> 0]} \cup {[a |-> v, b |-> 1] : v \in 0..(ValMod - 1)}

\* the declarations of the clients: an aggregator that fails, a waiting
\* node with an aggregator, a waiting node without one, a default value, a
\* node that is no wildcard
Declarations ==
    {[data_id |-> n, default_value |-> EMPTY, wait_inputs |-> x[1],
      function |-> x[2], wildcard |-> "None"] :
        n \in {"a", "c"}, x \in {<<FALSE, "fail">>, <<TRUE, "sum">>, <<TRUE, "None">>}}
    \cup {[data_id |-> "c", default_value |-> 1, wait_inputs |-> TRUE,
           function |-> "sum", wildcard |-> "None"],
          [data_id |-> "a", default_value |-> EMPTY, wait_inputs |-> FALSE,
           function |-> "None", wildcard |-> "False"]}

\* a data node is declared before the functions, as add_from_lists does
DeclareData ==
    /\ pc = "build"
    /\ DOMAIN nodes = {}
    /\ \E x \in Declarations :
         add_data(x.data_id, x.default_value, x.wait_inputs, x.wildcard,
                  x.function, "None")
    /\ UNCHANGED <<pc, first_out>>

\* the callables and input domains a function of the catalog is added
\* with: total, partial, or total with a domain
Kinds ==
    [f1 |-> {<<"inc", "None">>, <<"log", "None">>, <<"inc", "pos">>},
     f2 |-> {<<"inc", "None">>},
     f3 |-> {<<"inc", "None">>, <<"log", "None">>},
     f4 |-> {<<"inc", "None">>},
     f5 |-> {<<"inc", "None">>}]

AddPlainFunction ==
    /\ pc = "build"
    /\ \E f \in DOMAIN Shape : \E x \in Kinds[f] :
         add_function(f, x[1], Shape[f].inputs, Shape[f].outputs, x[2], <<>>,
                      NoAttr, NoAttr)
    /\ UNCHANGED <<pc, first_out>>

\* wildcard = True is dispatched where it differs from wildcard = False
Dispatch ==
    /\ pc = "build"
    /\ \E inputs \in InputMaps, outputs \in {{}, {"c"}, {"a", "d"}},
          wildcard \in BOOLEAN :
         /\ wildcard =>
              outputs \cap (DOMAIN inputs \cup DOMAIN default_values) # {}
         /\ DispatchStart(inputs, outputs, <<>>, wildcard, FALSE)

Next == DeclareData \/ AddPlainFunction \/ Dispatch \/ RunStep \/ RunEnd

Spec == Init /\ [][Next]_vars

-----------------------------------------------------------------------------
(* The client of a heavier alternative: it dispatches, adds the function   *)
(* "alt" with the inputs and the outputs of a function f and a greater     *)
(* weight, and dispatches the same call again.                             *)

AddBaseFunction ==
    /\ Cardinality(FunctionNodes) + 1 < MaxFuns
    /\ AddPlainFunction

DispatchPlain ==
    /\ pc = "build"
    /\ \E inputs \in InputMaps, outputs \in {{}, {"c"}} :
         DispatchStart(inputs, outputs, <<>>, FALSE, FALSE)

AddAlternative ==
    /\ pc = "done"
    /\ first_out = <<>>
    /\ \E f \in FunctionNodes, function \in {"inc", "log"},
          k \in {1, MaxWeight} :
         add_function("alt", function, nodes[f].inputs, nodes[f].outputs,
                      "None", <<Get(nodes[f], "weight", 0) + k>>, NoAttr, NoAttr)
    /\ first_out' = <<data_output>>
    /\ pc' = "again"

DispatchAgain ==
    /\ pc = "again"
    /\ DispatchStart(call.inputs, call.outputs, <<>>, call.wildcard, call.no_call)

NextAlt ==
    \/ DeclareData
    \/ AddBaseFunction
    \/ DispatchPlain
    \/ AddAlternative
    \/ DispatchAgain
    \/ RunStep
    \/ RunEnd

SpecAlt == Init /\ [][NextAlt]_vars

-----------------------------------------------------------------------------
(* The client of weights: its functions have a node weight and a weight on *)
(* the edge to their first output; c has the producers f1 and f4.          *)

AddWeightedFunction ==
    /\ pc = "build"
    /\ \E f \in DOMAIN Shape \ {"f2"}, weight \in {<<>>, <<MaxWeight>>},
          w \in {<<>>} \cup {<<x>> : x \in (-MaxWeight)..0} :
         add_function(f, "inc", Shape[f].inputs, Shape[f].outputs, "None",
                      weight, NoAttr,
                      Opt(Shape[f].outputs[1], w # <<>>,
                          IF w # <<>> THEN w[1] ELSE 0))
    /\ UNCHANGED <<pc, first_out>>

DispatchWeighted ==
    /\ pc = "build"
    /\ \E inputs \in {[a |-> 1], [a |-> 1, b |-> 1]}, outputs \in {{}, {"c"}} :
         DispatchStart(inputs, outputs, <<>>, FALSE, FALSE)

NextW == AddWeightedFunction \/ DispatchWeighted \/ RunStep \/ RunEnd

SpecW == Init /\ [][NextW]_vars

-----------------------------------------------------------------------------
(* The client of cutoff: its functions have a node weight and a weight on  *)
(* the edge to their first output, and it dispatches with a cutoff.        *)

AddCutFunction ==
    /\ pc = "build"
    /\ \E f \in DOMAIN Shape, weight \in {<<>>, <<MaxWeight>>},
          w \in {<<>>, <<-MaxWeight>>} :
         add_function(f, "inc", Shape[f].inputs, Shape[f].outputs, "None",
                      weight, NoAttr,
                      Opt(Shape[f].outputs[1], w # <<>>,
                          IF w # <<>> THEN w[1] ELSE 0))
    /\ UNCHANGED <<pc, first_out>>

DispatchCutoff ==
    /\ pc = "build"
    /\ \E inputs \in {[a |-> 1], [a |-> 1, b |-> 1]}, wildcard \in BOOLEAN,
          co \in 0..MaxCutoff :
         DispatchStart(inputs, IF wildcard THEN {"a"} ELSE {}, <<co>>,
                       wildcard, FALSE)

NextCut == AddCutFunction \/ DispatchCutoff \/ RunStep \/ RunEnd

SpecCut == Init /\ [][NextCut]_vars

-----------------------------------------------------------------------------
(* The client of the repeated dispatch: it builds a dispatcher,            *)
(* dispatches, keeps the result, calls shrink_dsp or dispatch with other   *)
(* arguments, and repeats the first dispatch.  first_out is                *)
(* <<data_output, workflow edges, call, stage, calls>>.                    *)

DispatchFirst ==
    /\ pc = "build"
    /\ \E inputs \in InputMaps : DispatchStart(inputs, {}, <<>>, FALSE, FALSE)

KeepFirst ==
    /\ pc = "done"
    /\ raised = ""
    /\ first_out = <<>>
    /\ first_out' = <<data_output, DOMAIN workflow.edge, call, "between", calls>>
    /\ pc' = "kept"
    /\ UNCHANGED <<dsp_vars, run_vars, obj_vars, raised>>

\* shrink_dsp with a list or a dict of inputs
ShrinkBetween ==
    /\ pc = "kept"
    /\ \E inputs \in SUBSET {"a", "b", "d"}, mapping \in BOOLEAN,
          outputs \in {<<>>, <<{"c"}>>, <<{"d"}>>} :
         ShrinkStart(inputs, mapping, outputs, <<>>)
    /\ UNCHANGED <<first_out, sdfun>>

DispatchBetween ==
    /\ pc = "kept"
    /\ \E inputs \in {[b |-> 1], [c |-> 0]},
          outputs \in {{}, {"c"}}, wildcard \in BOOLEAN, no_call \in BOOLEAN :
         /\ wildcard => outputs # {}
         /\ DispatchStart(inputs, outputs, <<>>, wildcard, no_call)

Repeat ==
    /\ pc = "done"
    /\ caller = ""
    /\ first_out # <<>>
    /\ first_out[4] = "between"
    /\ first_out' = [first_out EXCEPT ![4] = "repeat"]
    /\ pc' = "repeat"
    /\ UNCHANGED <<dsp_vars, run_vars, obj_vars, raised>>

DispatchRepeat ==
    /\ pc = "repeat"
    /\ DispatchStart(first_out[3].inputs, first_out[3].outputs, <<>>,
                     first_out[3].wildcard, first_out[3].no_call)

NextIdem ==
    \/ AddPlainFunction
    \/ DispatchFirst
    \/ KeepFirst
    \/ ShrinkBetween
    \/ DispatchBetween
    \/ Repeat
    \/ DispatchRepeat
    \/ ShrinkDispatch
    \/ ShrinkLoop
    \/ RunStep
    \/ RunEnd

SpecIdem == Init /\ [][NextIdem]_vars

-----------------------------------------------------------------------------
(* The client of shrink_dsp: it dispatches on inputs I, keeps the result,  *)
(* calls shrink_dsp(I, O) for outputs O the dispatch estimated, and        *)
(* dispatches the dispatcher it gets on I.                                 *)

ShrinkKept ==
    /\ pc = "kept"
    /\ \E O \in SUBSET (DOMAIN first_out[1] \cap {"a", "c", "d"}) :
         /\ O # {}
         /\ ShrinkStart(DOMAIN first_out[3].inputs, TRUE, <<O>>, <<>>)
    /\ UNCHANGED <<first_out, sdfun>>

UseShrunk ==
    /\ pc = "done"
    /\ caller = ""
    /\ raised = ""
    /\ sub_dsp # <<>>
    /\ first_out # <<>>
    /\ UseSubDsp
    /\ first_out' = [first_out EXCEPT ![4] = "repeat"]
    /\ pc' = "repeat"

NextShrink ==
    \/ DeclareData
    \/ AddPlainFunction
    \/ DispatchFirst
    \/ KeepFirst
    \/ ShrinkKept
    \/ ShrinkDispatch
    \/ ShrinkLoop
    \/ UseShrunk
    \/ DispatchRepeat
    \/ RunStep
    \/ RunEnd

SpecShrink == Init /\ [][NextShrink]_vars

-----------------------------------------------------------------------------
(* The client that calls shrink_dsp on the dispatcher it built, with      *)
(* inputs (a dict when there is one key, a list otherwise), with or        *)
(* without outputs and cutoff.                                             *)

ShrinkCall ==
    /\ pc = "build"
    /\ \E inputs \in {{}, {"a"}, {"a", "c"}, {"b", "d"}},
          outputs \in {<<>>, <<{"a"}>>, <<{"c"}>>}, co \in {<<>>, <<1>>} :
         ShrinkStart(inputs, inputs = {"a"}, outputs, co)
    /\ UNCHANGED <<first_out, sdfun>>

NextShrinkCall ==
    \/ DeclareData
    \/ AddPlainFunction
    \/ ShrinkCall
    \/ ShrinkDispatch
    \/ ShrinkLoop
    \/ RunStep
    \/ RunEnd

SpecShrinkCall == Init /\ [][NextShrinkCall]_vars

-----------------------------------------------------------------------------
(* The client that dispatches with no_call=True, keeps the workflow and    *)
(* dispatches again with the same inputs and no_call=False.                *)

DispatchNoCall ==
    /\ pc = "build"
    /\ \E inputs \in InputMaps, outputs \in {{}, {"c"}} :
         DispatchStart(inputs, outputs, <<>>, FALSE, TRUE)

DispatchCall ==
    /\ pc = "kept"
    /\ DispatchStart(first_out[3].inputs, first_out[3].outputs, <<>>, FALSE, FALSE)

NextNoCall ==
    \/ DeclareData
    \/ AddPlainFunction
    \/ DispatchNoCall
    \/ KeepFirst
    \/ DispatchCall
    \/ RunStep
    \/ RunEnd

SpecNoCall == Init /\ [][NextNoCall]_vars

-----------------------------------------------------------------------------
(* The client of get_sub_dsp_from_workflow: it dispatches on inputs I,     *)
(* keeps the result, takes the sub-dispatcher of some sources out of the   *)
(* workflow with reverse=True, and dispatches it on I.                     *)

SubFromWorkflow ==
    /\ pc = "kept"
    /\ \E sources \in {{"a"}, {"c"}, {"d"}, {"c", "d"}} :
         sub_dsp' = <<GetSubDspFromWorkflow(sources, EmptyGraph)>>
    /\ pc' = "done"
    /\ UNCHANGED <<dsp_vars, run_vars, raised, first_out, caller, shrink, sdfun>>

NextSub ==
    \/ DeclareData
    \/ AddPlainFunction
    \/ DispatchFirst
    \/ KeepFirst
    \/ SubFromWorkflow
    \/ UseShrunk
    \/ DispatchRepeat
    \/ RunStep
    \/ RunEnd

SpecSub == Init /\ [][NextSub]_vars

-----------------------------------------------------------------------------
(* SubDispatchFunction(dsp, function_id, inputs, outputs): the object is   *)
(* the record [inputs, outputs, input_values, ret, built]; ret is <<>> or  *)
(* <<what the last call returned>>, as the sequence of the values of the   *)
(* outputs.                                                                *)

Unreachable == "ValueError: Unreachable output-targets"

\* return_output(o) in the try block of __call__: o[k] for each output k;
\* the KeyError of a missing one becomes the ValueError
ReturnOutput(f, o) ==
    IF Range(f.outputs) \subseteq DOMAIN o
    THEN [raise |-> FALSE, res |-> [i \in 1..Len(f.outputs) |-> o[f.outputs[i]]]]
    ELSE [raise |-> TRUE, res |-> <<>>]

\* __init__ up to the first dispatch of dsp.shrink_dsp(inputs, outputs)
FunctionInit(inputs, outputs) ==
    /\ ShrinkStart(Range(inputs), FALSE, <<Range(outputs)>>, <<>>)
    /\ sdfun' = <<[inputs |-> inputs, outputs |-> outputs,
                   input_values |-> NoAttr, ret |-> <<>>, built |-> FALSE,
                   args |-> <<>>]>>

\* the rest of __init__, after shrink_dsp returned: the outputs that are
\* no nodes of the shrunk dispatcher raise; else the object keeps the
\* shrunk dispatcher, its default values and its wildcards
FunctionBuilt ==
    /\ pc = "done" /\ caller = "" /\ raised = ""
    /\ sub_dsp # <<>> /\ sdfun # <<>> /\ ~sdfun[1].built
    /\ LET dsp == sub_dsp[1]
           f == sdfun[1]
           missed == Range(f.outputs) \ DOMAIN dsp.nodes
       IN IF missed # {}
          THEN /\ raised' = Unreachable
               /\ sdfun' = <<>>
               /\ UNCHANGED <<dsp_vars, workflow, data_output, dist, visited,
                              wildcards, wait_in, call, pc, sub_dsp>>
          ELSE /\ nodes' = dsp.nodes
               /\ edges' = dsp.edges
               /\ default_values' = dsp.default_values
               /\ raises' = FALSE
               /\ workflow' = EmptyGraph
               /\ data_output' = NoAttr
               /\ dist' = NoAttr
               /\ visited' = {}
               /\ wildcards' = SetWildcards(TRUE, [k \in Range(f.inputs) |-> NONE],
                                            Range(f.outputs))
               /\ wait_in' = NoAttr
               /\ call' = NoCall
               /\ sdfun' = <<[f EXCEPT !.input_values = dsp.default_values,
                                       !.built = TRUE]>>
               /\ sub_dsp' = <<>>
               /\ pc' = "fun"
               /\ UNCHANGED raised
    /\ targets' = {}
    /\ cutoff' = <<>>
    /\ UNCHANGED <<fringe, seen, calls, popped, first_out, caller, shrink>>

\* input_values.update(dict(zip(self.inputs, args))): zip stops at the
\* last argument, and the dict is the one the earlier calls have updated
InputValues(f, args) ==
    [k \in {f.inputs[i] : i \in 1..Len(args)} |->
       args[CHOOSE i \in 1..Len(args) :
              /\ f.inputs[i] = k
              /\ \A j \in 1..Len(args) : f.inputs[j] = k => j <= i]]
    @@ f.input_values

\* __call__(*args) up to the loop of _run: the arguments update
\* input_values, _init_workflow seeds them
FunctionCall(args) ==
    LET f == sdfun[1]
        iv == InputValues(f, args)
    IN /\ sdfun' = <<[f EXCEPT !.input_values = iv, !.ret = <<>>, !.args = args]>>
       /\ call' = [NoCall EXCEPT !.inputs = iv, !.initial = iv, !.wildcard = TRUE]
       /\ calls' = <<>>
       /\ popped' = <<>>
       /\ \E order \in Orders(DOMAIN iv) :
            LET st == InitWorkflow(order, iv, wildcards, cutoff, FALSE)
            IN /\ workflow' = st.wf
               /\ data_output' = NoAttr
               /\ visited' = st.vis
               /\ dist' = START :> -1
               /\ seen' = st.seen
               /\ fringe' = st.fringe
       /\ pc' = "run"
       /\ raised' = ""
       /\ caller' = "function"
       /\ UNCHANGED <<dsp_vars, targets, cutoff, wildcards, wait_in, shrink,
                      sub_dsp>>

\* the end of _run inside __call__, and return_output
FunctionReturn ==
    /\ pc = "break" \/ (pc = "run" /\ fringe = <<>>)
    /\ caller = "function"
    /\ LET unused == {n \in DOMAIN workflow.node \ visited :
                         nodes[n].type = "function"}
           r == ReturnOutput(sdfun[1], data_output)
       IN /\ workflow' = RemoveNodes(workflow, unused)
          /\ raised' = IF r.raise THEN Unreachable ELSE ""
          /\ sdfun' = <<[sdfun[1] EXCEPT !.ret = IF r.raise THEN <<>> ELSE <<r.res>>]>>
    /\ pc' = "done"
    /\ caller' = ""
    /\ fringe' = <<>>
    /\ seen' = NoAttr
    /\ UNCHANGED <<dsp_vars, data_output, dist, visited, targets, cutoff,
                   wildcards, wait_in, call, calls, popped, first_out, shrink,
                   sub_dsp>>

(* The client of SubDispatchFunction: it builds a dispatcher, makes a      *)
(* function of it and calls the function.                                  *)

MakeFunction ==
    /\ pc = "build"
    /\ \E inputs \in {<<"a">>, <<"a", "b">>},
          outputs \in {<<"c">>, <<"d">>, <<"c", "d">>} :
         FunctionInit(inputs, outputs)
    /\ UNCHANGED first_out

\* the function is called, for the first time or again, with as many
\* arguments as it has inputs or fewer; first_out is the sequence of
\* <<args, exception, ret>> of the calls that are over
CallTheFunction ==
    /\ \/ pc = "fun" /\ first_out' = <<>>
       \/ /\ pc = "done" /\ caller = "" /\ sdfun # <<>> /\ sdfun[1].built
          /\ Len(first_out) + 1 < MaxCalls
          /\ first_out' = Append(first_out, <<sdfun[1].args, raised, sdfun[1].ret>>)
    /\ \E n \in 0..Len(sdfun[1].inputs) :
         \E args \in [1..n -> 0..(ValMod - 1)] : FunctionCall(args)

NextFun ==
    \/ DeclareData
    \/ AddPlainFunction
    \/ MakeFunction
    \/ ShrinkDispatch
    \/ ShrinkLoop
    \/ FunctionBuilt
    \/ CallTheFunction
    \/ FunctionReturn
    \/ RunStep
    \/ RunEnd

SpecFun == Init /\ [][NextFun]_vars

-----------------------------------------------------------------------------
(* Properties of a dispatch.                                               *)

\* the callable of this kind of the node n was invoked
Called(kind, n) ==
    \E i \in 1..Len(calls) : calls[i][1] = kind /\ calls[i][2] = n

\* the nodes whose estimation failed in the dispatch: the callable of the
\* function raised, the aggregator of the data node raised, or the data
\* node waits for its inputs and has no aggregator
FailedNodes ==
    {n \in DOMAIN dist \ {START} :
       \/ \E i \in 1..Len(calls) :
            /\ calls[i][1] \in {"function", "aggregator"}
            /\ calls[i][2] = n
            /\ calls[i][3] = "raised"
       \/ /\ nodes[n].type = "data"
          /\ nodes[n].wait_inputs
          /\ "function" \notin DOMAIN nodes[n]
          /\ ~call.no_call}

C2_ReadinessGate ==
    pc \in {"run", "break", "done"} =>
      /\ \A v \in DOMAIN dist \ {START} :
           nodes[v].wait_inputs => Pred(edges, v) \subseteq visited
      /\ \A n \in DOMAIN nodes :
           (/\ nodes[n].type = "data"
            /\ nodes[n].wait_inputs
            /\ Pred(edges, n) \ visited # {})
           => n \notin DOMAIN dist /\ n \notin DOMAIN data_output

\* a dispatch that processed a function returned normally without the
\* wait_inputs data node n, which is an input of its own predecessor f, a
\* function that was never visited
C2_Witness ==
    /\ pc = "done" /\ raised = ""
    /\ \E g \in DOMAIN dist \ {START} : nodes[g].type = "function"
    /\ \E n \in DOMAIN nodes \ DOMAIN data_output :
         /\ nodes[n].type = "data" /\ nodes[n].wait_inputs
         /\ \E f \in Pred(edges, n) \ visited : n \in Pred(edges, f)

\* the functions that "alt" is a heavier alternative of
Lighter ==
    {f \in FunctionNodes \ {"alt"} :
       /\ "alt" \in FunctionNodes
       /\ nodes[f].inputs = nodes["alt"].inputs
       /\ nodes[f].outputs = nodes["alt"].outputs
       /\ Get(nodes[f], "weight", 0) < nodes["alt"].weight}

\* the function node n was run and produced nothing: its callable raised
\* or its input_domain rejected the arguments
Skipped(n) ==
    /\ n \in DOMAIN dist
    /\ n \in DOMAIN workflow.node
    /\ Succ(workflow.edge, n) = {}

\* C3 (as amended): when a strictly heavier alternative of the function f
\* is added and the call is dispatched again and returns normally, then,
\* unless f is skipped (its callable raises or its input_domain rejects) or
\* an output of f is a wait_inputs node, data_output is what it was, the
\* callable of the alternative is not invoked, the alternative has no edge
\* in the workflow and every output of f in data_output has one edge into
\* it.
C3_HeavierUnused ==
    (pc = "done" /\ first_out # <<>> /\ raised = "") =>
      \A f \in Lighter :
        (/\ ~Skipped(f)
         /\ \A o \in Range(nodes[f].outputs) : ~nodes[o].wait_inputs)
        => /\ data_output = first_out[1]
           /\ ~Called("function", "alt")
           /\ Succ(workflow.edge, "alt") = {}
           /\ \A o \in Range(nodes[f].outputs) \cap DOMAIN data_output :
                Cardinality(Pred(workflow.edge, o)) = 1

\* C3 as stated: data_output is what it was before the alternative was
\* added, the alternative is not used and each output has one edge into it.
C3_NeverChanges ==
    (pc = "done" /\ first_out # <<>> /\ raised = "") =>
      \A f \in Lighter :
           /\ data_output = first_out[1]
           /\ ~Called("function", "alt")
           /\ \A o \in Range(nodes[f].outputs) \cap DOMAIN workflow.node :
                Cardinality(Pred(workflow.edge, o)) = 1

\* the second dispatch returned normally: f estimated an output, the
\* alternative was popped after it and left the workflow
C3_Witness ==
    /\ pc = "done" /\ first_out # <<>> /\ raised = ""
    /\ \E f \in Lighter :
         /\ "alt" \in DOMAIN dist
         /\ "alt" \notin DOMAIN workflow.node
         /\ \E o \in Range(nodes[f].outputs) :
              o \in DOMAIN data_output /\ <<f, o>> \in DOMAIN workflow.edge

\* the length of the workflow edge <<p, n>>: START is seeded at -1 and the
\* inputs at 0
WfLength(p, n) ==
    IF p = START THEN 1 ELSE EdgeLength(edges[<<p, n>>], nodes[n])

\* the sums of the edge lengths along the workflow paths of at most k edges
\* from START to n
RECURSIVE PathSums(_, _)
PathSums(n, k) ==
    IF n = START THEN {-1}
    ELSE IF k = 0 THEN {}
    ELSE UNION {{x + WfLength(p, n) : x \in PathSums(p, k - 1)} :
                  p \in Pred(workflow.edge, n)}

\* no edge and no node of the dispatcher has a negative weight
NonNegativeWeights ==
    /\ \A e \in DOMAIN edges : Get(edges[e], "weight", 1) >= 0
    /\ \A n \in DOMAIN nodes : Get(nodes[n], "weight", 0) >= 0

\* C4 as stated, for the dispatchers without negative weights: after a
\* dispatch, dist[n] of every node n of data_output is the sum of the edge
\* lengths (edge weight, default 1, plus weight of the destination node,
\* default 0) along a workflow path from START, seeded at -1, to n.
C4_DistIsPathLength ==
    (pc = "done" /\ raised = "" /\ NonNegativeWeights) =>
      \A n \in DOMAIN data_output \cap DOMAIN dist :
        dist[n] \in PathSums(n, Cardinality(DOMAIN workflow.node))

\* the distances of the popped nodes never decrease
PoppedInOrder ==
    \A i \in 1..Len(popped), j \in 1..Len(popped) :
      i < j => popped[i][2] <= popped[j][2]

\* C5 (as amended): in a dispatch that returns without error on a
\* dispatcher whose edge and node weights are not negative, the distances of
\* the nodes, in the order heappop returns them, never decrease.
C5_PopOrder ==
    (pc = "done" /\ raised = "" /\ NonNegativeWeights) => PoppedInOrder

\* C5 as stated: the same for any weights, negative ones included.
C5_PopOrderAnyWeights ==
    (pc = "done" /\ raised = "") => PoppedInOrder

\* a dispatch returned without error on a dispatcher with explicit weights,
\* none negative, after it popped nodes at three distances
C5_Witness ==
    /\ pc = "done" /\ raised = "" /\ NonNegativeWeights
    /\ \E e \in DOMAIN edges : "weight" \in DOMAIN edges[e]
    /\ \E n \in DOMAIN nodes : "weight" \in DOMAIN nodes[n]
    /\ Cardinality({popped[i][2] : i \in 1..Len(popped)}) >= 3

ContradictoryPaths == "ValueError: Contradictory paths found: negative weights?"

\* C6: when the node v is popped and estimated, is not the last target, and
\* the distance through v to a successor w is smaller than the dist[w] of
\* the already estimated w, the dispatch ends with the error 'Contradictory
\* paths found: negative weights?', whatever the raises policy.
C6_ContradictionAborts ==
    [][(pc = "run" /\ fringe # <<>>) =>
         LET d == Head(fringe)[1]
             v == Head(fringe)[3]
             estimated == IF nodes[v].type = "data"
                          THEN v \in DOMAIN data_output'
                          ELSE Succ(workflow'.edge, v) # {}
         IN (/\ estimated
             /\ targets # {v}
             /\ \E w \in Succ(edges, v) :
                  /\ w \in DOMAIN dist'
                  /\ d + EdgeLength(edges[<<v, w>>], nodes[w]) < dist'[w])
            => (pc' = "done" /\ raised' = ContradictoryPaths)]_vars

\* a dispatcher that logs the failures aborted a dispatch with the error
C6_Witness ==
    pc = "done" /\ ~raises /\ raised = ContradictoryPaths

\* C7 as stated: with raises = False, a dispatch in which the estimation of
\* a node failed returns normally: no exception leaves dispatch.
C7_SoftFailureReturns ==
    (pc = "done" /\ ~raises /\ FailedNodes # {}) => raised = ""

EstimationErrors == {"ValueError: Estimation error at function node",
                     "ValueError: Estimation error at data node"}

\* C8: with raises = True, as soon as the callable of a function node or
\* the aggregator of a data node has raised, the dispatch is over with an
\* error raised to the caller: the failed node is the only one, it is the
\* last node popped, no call follows its call and nothing is left to pop.
C8_FirstFailureAborts ==
    (raises /\ FailedNodes # {}) =>
      /\ pc = "done"
      /\ raised \in EstimationErrors
      /\ FailedNodes = {popped[Len(popped)][1]}
      /\ \A i \in 1..Len(calls) :
           calls[i][2] = popped[Len(popped)][1] => i = Len(calls)
      /\ fringe = <<>>

\* the callable of a function raised under raises = True while a function
\* fed by another input had not been popped
C8_Witness ==
    /\ raises /\ pc = "done"
    /\ raised = "ValueError: Estimation error at function node"
    /\ \E f \in FunctionNodes \ visited : Pred(edges, f) \subseteq visited

\* C9: when a function node with an output left to estimate is popped and
\* its input_domain rejects the arguments gathered from the workflow, the
\* step invokes the input_domain only, adds no workflow edge out of the
\* function, raises nothing under either policy and pushes nothing; the
\* outputs stay out of dist and of data_output, open to another function.
C9_DomainRejectionIsSilent ==
    [][(pc = "run" /\ fringe # <<>>) =>
         LET v == Head(fringe)[3]
             attr == nodes[v]
             args == SelectSeq([j \in 1..Len(attr.inputs) |->
                                  workflow.edge[<<attr.inputs[j], v>>].value],
                               NotNone)
         IN (/\ attr.type = "function"
             /\ "input_domain" \in DOMAIN attr
             /\ ~call.no_call
             /\ \E o \in Range(attr.outputs) :
                  o \notin DOMAIN dist /\ o \in DOMAIN nodes
             /\ \A i \in Range(attr.inputs) : <<i, v>> \in DOMAIN workflow.edge
             /\ ~CallDomain(attr.input_domain, args).res)
            => /\ calls' = Append(calls, <<"input_domain", v, "returned">>)
               /\ Succ(workflow'.edge, v) = {}
               /\ raised' = "" /\ pc' = "run"
               /\ fringe' = Tail(fringe)
               /\ DOMAIN dist' = DOMAIN dist \cup {v}
               /\ data_output' = data_output]_vars

\* under raises = True a dispatch returned normally: the function f was
\* rejected by its input_domain and its output o was estimated afterwards
\* by another function g
C9_Witness ==
    /\ pc = "done" /\ raised = "" /\ raises
    /\ \E f \in FunctionNodes :
         /\ Called("input_domain", f) /\ ~Called("function", f)
         /\ \E o \in Range(nodes[f].outputs) \cap DOMAIN data_output :
              \E g \in FunctionNodes \ {f} :
                /\ <<g, o>> \in DOMAIN workflow.edge
                /\ \E i \in 1..Len(popped), j \in 1..Len(popped) :
                     i < j /\ popped[i][1] = f /\ popped[j][1] = g

\* every target of the dispatch has been popped and estimated
AllTargetsEstimated ==
    /\ call.outputs # {}
    /\ \A t \in call.outputs :
         /\ t \in DOMAIN data_output
         /\ \E i \in 1..Len(popped) : popped[i][1] = t

\* C10: in a dispatch with targets, once the last target has been popped
\* and estimated the loop is over and the last node popped is a target (no
\* node is popped after it); when the dispatch has returned nothing is left
\* of the fringe and every function node of the workflow was visited.
C10_StopsAtLastTarget ==
    (pc \in {"run", "break", "done"} /\ AllTargetsEstimated) =>
      /\ pc \in {"break", "done"}
      /\ popped[Len(popped)][1] \in call.outputs
      /\ pc = "done" =>
           /\ fringe = <<>>
           /\ \A n \in DOMAIN workflow.node \cap FunctionNodes : n \in visited

\* a dispatch with targets returned at its last target: the data node o,
\* pushed by the visited function g, was never popped, and the function f,
\* fed by an estimated input, was never visited and is not in the workflow
C10_Witness ==
    /\ pc = "done" /\ raised = "" /\ AllTargetsEstimated
    /\ \E g \in FunctionNodes \cap visited :
         \E o \in Succ(workflow.edge, g) : o \notin DOMAIN dist
    /\ \E f \in FunctionNodes \ visited :
         /\ Pred(edges, f) \cap DOMAIN data_output # {}
         /\ f \notin DOMAIN workflow.node

-----------------------------------------------------------------------------
\* the inputs _init_workflow pushed on the fringe at distance 0
Seeded == (DOMAIN call.initial \cap DOMAIN nodes) \ wildcards

\* C11: in a dispatch with a cutoff, every distance on the fringe that a
\* relaxation produced is at most the cutoff, and every estimated node
\* other than START and the seeded inputs has dist <= cutoff.
C11_CutoffBoundsDist ==
    (pc \in {"run", "break", "done"} /\ cutoff # <<>> /\ call # NoCall) =>
      /\ \A i \in 1..Len(fringe) :
           fringe[i][1] <= cutoff[1] \/ (fringe[i][3] \in Seeded /\ fringe[i][1] = 0)
      /\ \A n \in DOMAIN dist \ ({START} \cup Seeded) : dist[n] <= cutoff[1]
      /\ visited \subseteq DOMAIN dist \cup wildcards

\* a dispatch ended with a function left out by the cutoff: its inputs are
\* estimated and it is not
C11_Witness ==
    /\ pc = "done" /\ raised = "" /\ cutoff # <<>>
    /\ \E f \in FunctionNodes \ DOMAIN dist :
         /\ Range(nodes[f].inputs) \subseteq DOMAIN dist
         /\ \E i \in Range(nodes[f].inputs) :
              dist[i] + EdgeLength(edges[<<i, f>>], nodes[f]) > cutoff[1]
    /\ \E n \in DOMAIN dist \ ({START} \cup Seeded) : dist[n] = cutoff[1]

-----------------------------------------------------------------------------
\* the keys a wildcard dispatch is to treat as wildcards: initial values
\* (inputs and default values) that are targets and whose node does not
\* have wildcard = False
WildcardKeys ==
    {k \in DOMAIN call.initial \cap call.outputs \cap DOMAIN nodes :
       Get(nodes[k], "wildcard", TRUE)}

\* the node n was popped from the fringe in this dispatch
Popped(n) == \E i \in 1..Len(popped) : popped[i][1] = n

\* C12: in a dispatch with wildcard = True every input that is a target and
\* whose node is not declared with wildcard = False is a wildcard; when the
\* workflow is initialised its value is on the workflow edge to each of its
\* successors and it is not on the fringe; it is in data_output at the end
\* only if it was popped with an estimation of a function in the workflow.
C12_WildcardNotRecorded ==
    (pc \in {"run", "break", "done"} /\ call # NoCall /\ call.wildcard
       /\ ~SetWildcardsRaises(call.wildcard, call.initial, call.outputs)) =>
      \A k \in WildcardKeys :
        /\ k \in wildcards
        /\ (pc = "run" /\ popped = <<>>) =>
             /\ \A w \in Succ(edges, k) :
                  /\ <<k, w>> \in DOMAIN workflow.edge
                  /\ workflow.edge[<<k, w>>] = [value |-> call.initial[k]]
             /\ \A i \in 1..Len(fringe) : fringe[i][3] # k
             /\ k \notin DOMAIN data_output
        /\ k \in DOMAIN data_output =>
             /\ Popped(k)
             /\ \E f \in Pred(workflow.edge, k) \ {START} :
                  nodes[f].type = "function" /\ f \in DOMAIN dist

\* a wildcard dispatch returned a wildcard input with the value a function
\* re-estimated, which is not its input value
C12_Witness ==
    /\ pc = "done" /\ raised = "" /\ call.wildcard
    /\ \E k \in WildcardKeys :
         /\ k \in DOMAIN data_output /\ Popped(k)
         /\ data_output[k] # call.initial[k]

-----------------------------------------------------------------------------
(* Repeating a dispatch with the same arguments on the same dispatcher,   *)
(* whatever dispatch and shrink_dsp calls were made in between.            *)

\* the repeated dispatch is over
Repeated == pc = "done" /\ first_out # <<>> /\ first_out[4] = "repeat"

\* C13: when the repeated dispatch is over, it has returned, and its
\* data_output and workflow edges are those of the first dispatch
C13_Idempotent ==
    Repeated => /\ raised = ""
                /\ data_output = first_out[1]
                /\ DOMAIN workflow.edge = first_out[2]

-----------------------------------------------------------------------------
(* The dispatcher shrink_dsp(I, O) returns, dispatched on I.               *)

\* C14: the dispatch of the shrunk dispatcher on I returns, and it gives
\* every output of O the value the dispatch of D on I gave it
C14_ShrunkEquivalent ==
    Repeated =>
      /\ raised = ""
      /\ \A k \in shrink.outputs[1] :
           k \in DOMAIN data_output /\ data_output[k] = first_out[1][k]

-----------------------------------------------------------------------------
(* The loop of shrink_dsp.                                                 *)

\* C15: every iteration of the loop of shrink_dsp that does not stop adds
\* at least one node to the input set, so that the loop ends
C15_EveryIterationAddsInput ==
    [][(caller = "shrink_dsp" /\ pc = "done" /\ pc' = "shrink")
         => shrink'.inputs # shrink.inputs]_vars

\* shrink_dsp has returned
Shrunk == pc = "done" /\ caller = "" /\ raised = "" /\ sub_dsp # <<>>

\* C16, as stated: shrink_dsp called with outputs unset returns the empty
\* dispatcher
C16_UnsetOutputsGiveEmpty ==
    (Shrunk /\ shrink.outputs = <<>>) => sub_dsp[1] = EmptyDsp

\* C16, amended: shrink_dsp called with outputs unset returns the empty
\* dispatcher when the inputs are unset or empty; with inputs it returns a
\* dispatcher that has every input that is a data node
C16_UnsetOutputs ==
    (Shrunk /\ shrink.outputs = <<>>) =>
      IF shrink.inputs = {} THEN sub_dsp[1] = EmptyDsp
      ELSE {k \in shrink.inputs \cap DOMAIN nodes : nodes[k].type = "data"}
             \subseteq DOMAIN sub_dsp[1].nodes

C16_Witness ==
    /\ Shrunk
    /\ shrink.outputs = <<>>
    /\ shrink.inputs = {}
    /\ FunctionNodes # {}
    /\ sub_dsp[1] = EmptyDsp

-----------------------------------------------------------------------------
(* The workflow of a no-call dispatch and of the normal dispatch that      *)
(* follows it.                                                             *)

\* the normal dispatch that followed the no-call dispatch has returned
CalledAfterNoCall ==
    /\ pc = "done" /\ raised = ""
    /\ first_out # <<>> /\ first_out[3].no_call /\ ~call.no_call

\* in the dispatch no node failed and no input_domain rejected its
\* arguments
NoNodeFailed ==
    /\ FailedNodes = {}
    /\ \A f \in FunctionNodes : Called("input_domain", f) => Called("function", f)

-----------------------------------------------------------------------------
(* The dispatcher get_sub_dsp_from_workflow(sources, reverse=True)         *)
(* returns after a dispatch on I, dispatched on I.                         *)

\* C18: the dispatch of the sub-dispatcher on I returns, and every node of
\* it that the first dispatch estimated has the same value in its
\* data_output
C18_SubReproduces ==
    Repeated =>
      /\ raised = ""
      /\ \A k \in DOMAIN nodes \cap DOMAIN first_out[1] :
           k \in DOMAIN data_output /\ data_output[k] = first_out[1][k]

-----------------------------------------------------------------------------
(* The calls of a SubDispatchFunction.                                     *)

\* a call of the function is over
FunctionCalled == pc = "done" /\ sdfun # <<>> /\ sdfun[1].built

\* C19: a call of a SubDispatchFunction either returns the value of every
\* declared output, in the declared order, or raises the ValueError of the
\* unreachable output-targets
C19_AllOutputsOrValueError ==
    FunctionCalled =>
      \/ /\ raised = ""
         /\ sdfun[1].ret # <<>>
         /\ Range(sdfun[1].outputs) \subseteq DOMAIN data_output
         /\ sdfun[1].ret[1] = [i \in 1..Len(sdfun[1].outputs) |->
                                 data_output[sdfun[1].outputs[i]]]
      \/ /\ raised = Unreachable
         /\ sdfun[1].ret = <<>>


-----------------------------------------------------------------------------
(* A parent dispatcher with a function node that holds a SubDispatch.      *)

\* dsp.add_function('Sub-dispatch', dispatch, ['d'], ['e']), once
AddSubDispatch ==
    /\ pc = "build"
    /\ "Sub-dispatch" \notin DOMAIN nodes
    /\ \E sd \in DOMAIN SubDispatches :
         add_function("Sub-dispatch", sd, <<"d">>, <<"e">>, "None", <<>>,
                      NoAttr, NoAttr)
    /\ UNCHANGED <<pc, first_out>>

\* dsp.dispatch(inputs={'d': {'a': v}}), alone or with an input of the
\* other functions
DispatchNested ==
    /\ pc = "build"
    /\ \E v \in 0..(ValMod - 1), rest \in {NoAttr, [a |-> 1]},
          outputs \in {{}, {"e"}} :
         DispatchStart([d |-> v] @@ rest, outputs, <<>>, FALSE, FALSE)

NextNested ==
    \/ AddSubDispatch
    \/ AddPlainFunction
    \/ DispatchNested
    \/ RunStep
    \/ RunEnd

SpecNested == Init /\ [][NextNested]_vars

\* the function nodes holding a SubDispatch that the dispatch has called
SubDispatchExecuted ==
    {n \in FunctionNodes :
       /\ IsSubDispatch(nodes[n].function)
       /\ \E i \in 1..Len(calls) : calls[i][1] = "function" /\ calls[i][2] = n}

\* C20: when a dispatch that executed a function node holding a
\* SubDispatch has ended, the node was not reported as a failure, its
\* output data node was estimated from it, and its workflow node carries
\* the nested trace of the sub-dispatch.
C20_SubDispatchSucceeds ==
    pc = "done" =>
        \A n \in SubDispatchExecuted :
            /\ raised = ""
            /\ n \in DOMAIN workflow.node
            /\ "workflow" \in DOMAIN workflow.node[n]
            /\ <<n, "e">> \in DOMAIN workflow.edge
            /\ "e" \in DOMAIN data_output

-----------------------------------------------------------------------------
(* A client that declares data nodes with callbacks.                       *)

\* add_data(data_id, callback=...), with or without an aggregator,
\* before the functions
DeclareCallback ==
    /\ pc = "build"
    /\ DOMAIN nodes = {}
    /\ \E n \in {"a", "c", "d"}, cb \in {"cb", "cb_fail"},
          x \in {<<FALSE, "None">>, <<TRUE, "sum">>} :
         add_data(n, EMPTY, x[1], "None", x[2], cb)
    /\ UNCHANGED <<pc, first_out>>

NextCb ==
    \/ DeclareCallback
    \/ AddPlainFunction
    \/ Dispatch
    \/ DispatchNoCall
    \/ RunStep
    \/ RunEnd

SpecCb == Init /\ [][NextCb]_vars

\* the positions in calls of the callbacks
CallbackCalls == {i \in 1..Len(calls) : calls[i][1] = "callback"}

\* C21: the callback of a data node is invoked once for the node, with
\* the value the node is estimated with, when the value has been recorded
\* in data_output, and before any successor of the node is popped.
C21_CallbackAfterRecord ==
    \A i \in CallbackCalls :
        /\ \A j \in CallbackCalls : calls[j][2] = calls[i][2] => j = i
        /\ calls[i][5]
        /\ calls[i][2] = popped[Len(popped)][1]
             \/ (calls[i][2] \in DOMAIN data_output
                    /\ data_output[calls[i][2]] = calls[i][4])

\* the callback of the node popped by the step has raised
CallbackRaised ==
    /\ pc = "run"
    /\ Len(calls') > Len(calls)
    /\ calls'[Len(calls')][1] = "callback"
    /\ calls'[Len(calls')][3] = "raised"

-----------------------------------------------------------------------------
-----------------------------------------------------------------------------
\* the data nodes a dispatch has estimated: popped, and not failed
EstimatedData ==
    {n \in DOMAIN dist \ ({START} \cup FailedNodes) : nodes[n].type = "data"}

-----------------------------------------------------------------------------
(* A client of the builders and of the graph transformations.  It keeps    *)
(* in first_out the call it made last and what it saw of its effect.       *)

\* add_data with the id of a data node or of a function node
AddAnyData ==
    /\ pc = "build"
    /\ \E id \in {"a", "f1"},
          x \in {<<EMPTY, FALSE>>, <<1, FALSE>>, <<EMPTY, TRUE>>} :
         /\ add_data(id, x[1], x[2], "None", "None", "None")
         /\ first_out' = <<"add_data", IsFunctionId(Dsp, id)>>
    /\ UNCHANGED pc

\* add_function('f1', ...) with inputs and outputs of the catalog, or
\* with lists that name the node f1
AddAnyFunction ==
    /\ pc = "build"
    /\ \E x \in {Shape[f] : f \in {"f1", "f3", "f5"}}
                \cup {[inputs |-> <<"a", "f1">>, outputs |-> <<"c">>],
                      [inputs |-> <<"c">>, outputs |-> <<"d", "f1">>]} :
         /\ add_function("f1", "inc", x.inputs, x.outputs, "None", <<>>, NoAttr, NoAttr)
         /\ first_out' = <<"add_function",
                           \E u \in Range(x.inputs) \cup Range(x.outputs) :
                               IsFunctionId(Dsp, u),
                           /\ {n \in DOMAIN nodes' : nodes'[n].type = "function"}
                                = FunctionNodes
                           /\ DOMAIN edges' = DOMAIN edges>>
    /\ UNCHANGED pc

\* a set_default_value that does not look at the node
SetDefaultValueUnchecked(d, data_id, value) ==
    [d EXCEPT !.default_values =
                 IF value = EMPTY THEN Without(d.default_values, {data_id})
                 ELSE (data_id :> value) @@ d.default_values]

\* set_default_value(data_id, value) on the dispatcher d
SetDefaultValue(d, data_id, value) ==
    IF data_id \in DOMAIN d.nodes /\ d.nodes[data_id].type = "data"
    THEN [d EXCEPT !.default_values =
                      IF value = EMPTY THEN Without(d.default_values, {data_id})
                      ELSE (data_id :> value) @@ d.default_values]
    ELSE [d EXCEPT !.err = "ValueError: Input error"]

SetDefault ==
    /\ pc = "build"
    /\ \E id \in {"a", "f1"}, value \in {EMPTY, 0} :
         /\ Built(SetDefaultValue(Dsp, id, value))
         /\ first_out' = <<"set_default_value", id, value, default_values>>
    /\ UNCHANGED pc

\* a get_sub_dsp that returns the sub-graph induced by nodes_bunch
GetSubDspInduced(nodes_bunch, edges_bunch) ==
    LET n1 == nodes_bunch \cap DOMAIN nodes
    IN [nodes |-> [n \in n1 |-> nodes[n]],
        edges |-> [e \in {x \in DOMAIN edges : x[1] \in n1 /\ x[2] \in n1} |->
                     edges[e]],
        default_values |-> [k \in DOMAIN default_values \cap n1 |->
                                default_values[k]],
        err |-> ""]

\* get_sub_dsp(nodes_bunch, edges_bunch) on self; edges_bunch is <<>>
\* (None) or <<set of edges>>.  The result is [nodes, edges,
\* default_values, err].
GetSubDsp(nodes_bunch, edges_bunch) ==
    LET in_bunch == nodes_bunch \cap DOMAIN nodes
        \* function nodes that have not all their inputs in the bunch
        partial == {u \in in_bunch : /\ "inputs" \in DOMAIN nodes[u]
                                      /\ ~(Range(nodes[u].inputs) \subseteq nodes_bunch)}
        n1 == in_bunch \ partial
        e1 == {e \in DOMAIN edges : e[1] \in n1 /\ e[2] \in n1}
        removed == IF edges_bunch = <<>> THEN {} ELSE edges_bunch[1]
        e2 == e1 \ removed
        no_outputs == {u \in n1 : /\ nodes[u].type = "function"
                                   /\ ~\E e \in e2 : e[1] = u}
        n2 == n1 \ no_outputs
        e3 == {e \in e2 : e[1] \in n2 /\ e[2] \in n2}
        n3 == {u \in n2 : \E e \in e3 : e[1] = u \/ e[2] = u}
    IN IF ~(nodes_bunch \subseteq DOMAIN nodes)
       THEN EmptyDsp @@ [err |-> "KeyError"]
       ELSE IF ~(removed \subseteq e1)
       THEN EmptyDsp @@ [err |-> "NetworkXError"]
       ELSE [nodes |-> [n \in n3 |-> nodes[n]],
             edges |-> [e \in e3 |-> edges[e]],
             default_values |-> [k \in DOMAIN default_values \cap n3 |->
                                     default_values[k]],
             err |-> ""]

\* a get_sub_dsp that removes the nodes and the edges from the dispatcher
\* it is called on
CallGetSubDspInPlace ==
    /\ pc = "build"
    /\ \E x \in {<<DOMAIN nodes \ {n}, <<>>>> : n \in DOMAIN nodes}
                \cup {<<DOMAIN nodes, <<{e}>>>> : e \in DOMAIN edges} :
         LET nodes_bunch == x[1]
             edges_bunch == x[2]
             s == GetSubDsp(nodes_bunch, edges_bunch)
         IN /\ sub_dsp' = IF s.err = "" THEN <<s>> ELSE <<>>
            /\ raised' = s.err
            /\ first_out' = <<"get_sub_dsp", nodes_bunch, edges_bunch>>
            /\ nodes' = IF s.err = "" THEN s.nodes ELSE nodes
            /\ edges' = IF s.err = "" THEN s.edges ELSE edges
            /\ default_values' = IF s.err = "" THEN s.default_values
                                 ELSE default_values
    /\ pc' = "done"
    /\ UNCHANGED <<raises, run_vars, caller, shrink, sdfun>>

\* the client asks for the sub-dispatcher of all the nodes but one, or of
\* all the nodes without one edge
CallGetSubDsp ==
    /\ pc = "build"
    /\ \E x \in {<<DOMAIN nodes \ {n}, <<>>>> : n \in DOMAIN nodes}
                \cup {<<DOMAIN nodes, <<{e}>>>> : e \in DOMAIN edges} :
         LET nodes_bunch == x[1]
             edges_bunch == x[2]
             s == GetSubDsp(nodes_bunch, edges_bunch)
         IN /\ sub_dsp' = IF s.err = "" THEN <<s>> ELSE <<>>
            /\ raised' = s.err
            /\ first_out' = <<"get_sub_dsp", nodes_bunch, edges_bunch>>
    /\ pc' = "done"
    /\ UNCHANGED <<dsp_vars, run_vars, caller, shrink, sdfun>>

\* remove_cycles_iteration(dmap, sources, reached_nodes, edge_to_remove),
\* as the specification describes it: the nodes reached from the sources,
\* and for every simple cycle among them one edge, an edge into a data
\* node that does not wait for its inputs where the cycle has one.  The
\* result is the set of the pairs <<reached_nodes, edge_to_remove>> it can
\* leave.
RemoveCyclesIteration(sources) ==
    LET reached == Descendants(DOMAIN edges, sources)
        Er == {e \in DOMAIN edges : e[1] \in reached /\ e[2] \in reached}
        RECURSIVE Cycles(_)
        Cycles(path) ==
            LET last == path[Len(path)]
                closed == IF <<last, path[1]>> \in Er
                          THEN {{<<path[i], path[i + 1]>> : i \in 1..(Len(path) - 1)}
                                \cup {<<last, path[1]>>}}
                          ELSE {}
                ext == {n \in reached : /\ <<last, n>> \in Er
                                         /\ n \notin Range(path)
                                         /\ IdOrd(n) > IdOrd(path[1])}
            IN closed \cup UNION {Cycles(Append(path, n)) : n \in ext}
        cycles == UNION {Cycles(<<n>>) : n \in reached}
        preferred(c) == {e \in c : /\ nodes[e[2]].type = "data"
                                    /\ ~nodes[e[2]].wait_inputs}
        candidates(c) == IF preferred(c) # {} THEN preferred(c) ELSE c
        RECURSIVE Marked(_)
        Marked(cs) ==
            IF cs = {} THEN {{}}
            ELSE LET c == CHOOSE x \in cs : TRUE
                 IN {{e} \cup r : e \in candidates(c), r \in Marked(cs \ {c})}
    IN {<<reached, r>> : r \in Marked(cycles)}

\* remove_cycles(sources): the sub-dispatcher of the reached nodes without
\* the edges to remove
CallRemoveCycles ==
    /\ pc = "build"
    /\ \E sources \in {{"a"}, {"c"}, {"a", "c"}} :
         /\ sources \subseteq DOMAIN nodes
         /\ \E it \in RemoveCyclesIteration(sources) :
              LET s == GetSubDsp(it[1], <<it[2]>>)
              IN /\ sub_dsp' = IF s.err = "" THEN <<s>> ELSE <<>>
                 /\ raised' = s.err
                 /\ first_out' = <<"remove_cycles", sources>>
    /\ pc' = "done"
    /\ UNCHANGED <<dsp_vars, run_vars, caller, shrink, sdfun>>

\* shrink_dsp(['a'], outputs), which ends in get_sub_dsp_from_workflow
CallShrinkDsp ==
    /\ pc = "build"
    /\ \E outputs \in {<<>>, <<{"c", "d"}>>} :
         ShrinkStart({"a"}, FALSE, outputs, <<>>)
    /\ first_out' = <<"shrink_dsp">>
    /\ UNCHANGED sdfun

NextBuild ==
    \/ AddAnyData
    \/ AddAnyFunction
    \/ SetDefault
    \/ CallGetSubDsp
    \/ CallRemoveCycles
    \/ CallShrinkDsp
    \/ ShrinkDispatch
    \/ ShrinkLoop
    \/ RunStep
    \/ RunEnd

SpecBuild == Init /\ [][NextBuild]_vars

\* every edge joins a data node and a function node
Bipartite(N, E) ==
    \A e \in DOMAIN E :
        /\ e[1] \in DOMAIN N
        /\ e[2] \in DOMAIN N
        /\ (N[e[1]].type = "data") # (N[e[2]].type = "data")

\* the inputs and outputs of the function nodes are data nodes
KeysAreData(N) ==
    \A f \in {n \in DOMAIN N : N[n].type = "function"} :
        \A k \in Range(N[f].inputs) \cup Range(N[f].outputs) :
            k \in DOMAIN N /\ N[k].type = "data"

\* C25: whatever builders were called, the dispatcher map is bipartite
\* and the inputs and outputs of its functions are data nodes; add_data
\* on the id of a function raises, and add_function naming a function
\* among its inputs or outputs raises and leaves no node or edge behind.
C25_BuildersKeepBipartite ==
    /\ Bipartite(nodes, edges)
    /\ KeysAreData(nodes)
    /\ (pc = "build" /\ first_out # <<>> /\ first_out[1] = "add_data"
          /\ first_out[2])
         => raised = "ValueError: Invalid data id"
    /\ (pc = "build" /\ first_out # <<>> /\ first_out[1] = "add_function"
          /\ first_out[2])
         => /\ raised \in {"ValueError: Invalid input id",
                           "ValueError: Invalid output id"}
            /\ first_out[3]

C25_Witness ==
    /\ first_out # <<>>
    /\ first_out[1] = "add_function"
    /\ first_out[2]
    /\ raised = "ValueError: Invalid output id"
    /\ DOMAIN edges # {}

\* the default values of a dispatcher are values of its data nodes
DefaultsAreData(d) ==
    \A k \in DOMAIN d.default_values :
        k \in DOMAIN d.nodes /\ d.nodes[k].type = "data"

\* C26: the keys of default_values are data nodes, in the dispatcher and
\* in a dispatcher that a transformation returned; set_default_value
\* removes the default with EMPTY, sets it with another value, and on an
\* id that is no data node raises and leaves default_values as they were.
C26_DefaultsAreDataNodes ==
    /\ DefaultsAreData(Dsp)
    /\ sub_dsp # <<>> => DefaultsAreData(sub_dsp[1])
    /\ (pc = "build" /\ first_out # <<>> /\ first_out[1] = "set_default_value")
         => LET id == first_out[2]
                value == first_out[3]
                before == first_out[4]
            IN IF id \in DOMAIN nodes /\ nodes[id].type = "data"
               THEN /\ raised = ""
                    /\ IF value = EMPTY
                       THEN default_values = Without(before, {id})
                       ELSE default_values = (id :> value) @@ before
               ELSE /\ raised = "ValueError: Input error"
                    /\ default_values = before

C26_Witness ==
    /\ pc = "done"
    /\ sub_dsp # <<>>
    /\ DOMAIN sub_dsp[1].default_values # {}
    /\ DOMAIN default_values \ DOMAIN sub_dsp[1].default_values # {}

\* C27: in the dispatcher that get_sub_dsp returns every function has an
\* edge from each of its inputs and an edge to an output, no node is
\* isolated, no edge of edges_bunch is left, and the default values are
\* those of the nodes that are left.
C27_SubDspIsWellFormed ==
    (pc = "done" /\ first_out # <<>> /\ first_out[1] = "get_sub_dsp"
       /\ sub_dsp # <<>>) =>
        LET s == sub_dsp[1]
            E == DOMAIN s.edges
        IN /\ \A f \in {n \in DOMAIN s.nodes : s.nodes[n].type = "function"} :
                /\ \A k \in Range(s.nodes[f].inputs) : <<k, f>> \in E
                /\ \E e \in E : e[1] = f
           /\ \A n \in DOMAIN s.nodes : \E e \in E : e[1] = n \/ e[2] = n
           /\ first_out[3] # <<>> => first_out[3][1] \cap E = {}
           /\ s.default_values =
                [k \in DOMAIN default_values \cap DOMAIN s.nodes |-> default_values[k]]

-----------------------------------------------------------------------------
(* The nodes of one dispatch are processed once.                           *)

\* the steps of the loop of _run at which the node n was popped
Pops(n) == {i \in 1..Len(popped) : popped[i][1] = n}

\* C29: within one dispatch a node is popped and processed at most once,
\* also when it was pushed on the fringe more than once with different
\* distances, and the distance it was popped at is the one dist keeps
C29_ProcessedOnce ==
    pc \in {"run", "break", "done"} =>
      \A i \in 1..Len(popped) :
        /\ Pops(popped[i][1]) = {i}
        /\ popped[i][1] \in DOMAIN dist => dist[popped[i][1]] = popped[i][2]

-----------------------------------------------------------------------------
(* A dispatch with no_call = True calls nothing.                           *)

\* the data nodes popped so far
PoppedData == {n \in DOMAIN nodes : nodes[n].type = "data" /\ Pops(n) # {}}

\* the dispatch got past _init_run, where data_output is made anew
Initialised == raised = "" \/ popped # <<>>

\* C30: in a dispatch with no_call = True no function, input domain,
\* aggregator or callback is called, every key the dispatch records in
\* data_output that is a node of the dispatcher maps to NONE, and every
\* data node popped without an exception is such a key
C30_NoCallCallsNothing ==
    (pc \in {"run", "break", "done"} /\ call # NoCall /\ call.no_call) =>
      /\ calls = <<>>
      /\ Initialised =>
           \A k \in DOMAIN data_output \cap DOMAIN nodes : data_output[k] = NONE
      /\ raised = "" => PoppedData \subseteq DOMAIN data_output

\* a no-call dispatch has returned after it visited a function with an
\* input domain and a data node with an aggregator and a callback
C30_Witness ==
    /\ pc = "done" /\ raised = "" /\ call # NoCall /\ call.no_call
    /\ \E f \in FunctionNodes \cap visited : "input_domain" \in DOMAIN nodes[f]
    /\ \E n \in PoppedData :
         /\ "function" \in DOMAIN nodes[n]
         /\ "callback" \in DOMAIN nodes[n]
         /\ data_output[n] = NONE

-----------------------------------------------------------------------------
(* The client of functions with several outputs whose result has not one   *)
(* item for each output.                                                   *)

AddArityFunction ==
    /\ pc = "build"
    /\ \E f \in {"f4", "f5"}, function \in {"short", "scalar"} :
         add_function(f, function, Shape[f].inputs, Shape[f].outputs, "None",
                      <<>>, NoAttr, NoAttr)
    /\ UNCHANGED <<pc, first_out>>

NextArity ==
    \/ AddArityFunction
    \/ AddPlainFunction
    \/ Dispatch
    \/ RunStep
    \/ RunEnd

SpecArity == Init /\ [][NextArity]_vars

\* the function node f has several outputs and a callable that returns a
\* result of another length
WrongArity(f) ==
    /\ nodes[f].type = "function"
    /\ Len(nodes[f].outputs) > 1
    /\ nodes[f].function \in {"short", "scalar"}

\* C31: when a function node with several outputs has returned a result of
\* the wrong length, none of its outputs receives a value from it, the
\* dispatch goes on under raises = False and ends with the ValueError of
\* the warning under raises = True
C31_WrongAritySoftError ==
    \A i \in 1..Len(calls) :
      (calls[i][1] = "function" /\ calls[i][3] = "returned"
         /\ WrongArity(calls[i][2])) =>
        /\ \A u \in DOMAIN nodes : <<calls[i][2], u>> \notin DOMAIN workflow.edge
        /\ raises => raised = "ValueError: Estimation error at function node"
        /\ ~raises => raised = ""

-----------------------------------------------------------------------------
(* Estimations that reach a data node at the same distance.                *)

\* the functions whose estimation of the data node n is in the workflow
Estimators(n) == Pred(workflow.edge, n) \ {START}

\* the distance at which the estimation of the function k reaches n
EstDist(k, n) == dist[k] + EdgeLength(edges[<<k, n>>], nodes[n])

\* the estimators of n at the least distance
Tied(n) ==
    {k \in Estimators(n) : \A o \in Estimators(n) : EstDist(k, n) <= EstDist(o, n)}

\* the step of the loop of _run that pushed the function k on the fringe:
\* the first pop of an input of k after which all its inputs are visited
\* (0: it was pushed by _init_workflow)
PushStep(k) ==
    LET ins == Range(nodes[k].inputs)
        done(i) == /\ popped[i][1] \in ins
                   /\ \A u \in ins : u \in wildcards
                                       \/ \E j \in 1..i : popped[j][1] = u
        S == {i \in 1..Len(popped) : done(i)}
    IN IF S = {} THEN 0 ELSE CHOOSE i \in S : \A j \in S : i <= j

\* the step pops the data node n, which does not wait for its inputs and
\* has the estimations of several functions, more than one of them at the
\* least distance
PopsTied(n) ==
    /\ pc = "run" /\ fringe # <<>> /\ Head(fringe)[3] = n
    /\ popped' = Append(popped, <<n, Head(fringe)[1]>>)
    /\ nodes[n].type = "data"
    /\ ~Get(wait_in, n, nodes[n].wait_inputs)
    /\ Cardinality(Pred(workflow.edge, n)) > 1
    /\ \A k \in Estimators(n) : <<k, n>> \in DOMAIN edges /\ k \in DOMAIN dist
    /\ Cardinality(Tied(n)) > 1

\* C32 (as stated): of the estimations that reach a data node at the same
\* least distance, the one kept in the workflow is the one of the function
\* that was pushed on the fringe first
C32_TieKeepsFirstInserted ==
    [][\A n \in DOMAIN nodes :
         (PopsTied(n) /\ \E k \in Tied(n) :
                           \A o \in Tied(n) \ {k} : PushStep(k) < PushStep(o)) =>
           \A k \in Pred(workflow'.edge, n) \ {START} :
             \A o \in Tied(n) \ {k} : PushStep(k) < PushStep(o)]_vars

\* C32 (amended): of the estimations that reach a data node at the same
\* least distance, the only one kept in the workflow is the one of the
\* function with the least id
C32_TieKeepsSmallestId ==
    [][\A n \in DOMAIN nodes :
         PopsTied(n) =>
           Pred(workflow'.edge, n) \ {START} =
             {k \in Tied(n) : \A o \in Tied(n) : IdOrd(k) <= IdOrd(o)}]_vars

\* the data node n was popped with the estimations of f and g at the same
\* distance; g, pushed on the fringe after f, has the smaller id and its
\* estimation is the one left
C32_Witness ==
    \E n \in PoppedData : \E f, g \in FunctionNodes \cap visited :
      /\ ~nodes[n].wait_inputs
      /\ <<f, n>> \in DOMAIN edges /\ <<g, n>> \in DOMAIN edges
      /\ Pops(f) # {} /\ Pops(g) # {} /\ Cardinality(Pops(n)) = 1
      /\ \A i \in Pops(f) \cup Pops(g) : \A j \in Pops(n) : i < j
      /\ EstDist(f, n) = EstDist(g, n) /\ EstDist(f, n) = dist[n]
      /\ PushStep(f) < PushStep(g) /\ IdOrd(g) < IdOrd(f)
      /\ Pred(workflow.edge, n) = {g}

-----------------------------------------------------------------------------
(* Functions whose outputs are settled.                                    *)

\* the step pops the function node f
PopsFunction(f) ==
    /\ pc = "run" /\ fringe # <<>> /\ Head(fringe)[3] = f
    /\ popped' = Append(popped, <<f, Head(fringe)[1]>>)
    /\ nodes[f].type = "function"

\* the outputs of f that have a distance already
Settled(f) == {u \in Range(nodes[f].outputs) : u \in DOMAIN dist}

\* C33: a function node popped when each of its outputs is settled or is
\* no node of the dispatcher is not called, leaves the workflow and pushes
\* nothing; a function popped with some outputs settled adds workflow
\* edges to the others only, and the value and the estimations of a
\* settled output are left as they are
C33_SettledOutputsKept ==
    [][\A f \in DOMAIN nodes :
         PopsFunction(f) =>
           /\ OutputNodes(nodes[f].outputs, dist) = {} =>
                /\ calls' = calls
                /\ f \notin DOMAIN workflow'.node
                /\ \A e \in DOMAIN workflow'.edge : e[1] # f /\ e[2] # f
                /\ fringe' = Tail(fringe) /\ seen' = seen
                /\ data_output' = data_output
                /\ raised' = "" /\ pc' = "run"
           /\ \A u \in Settled(f) :
                /\ <<f, u>> \notin DOMAIN workflow'.edge
                /\ \A k \in DOMAIN nodes :
                     <<k, u>> \in DOMAIN workflow.edge =>
                       /\ <<k, u>> \in DOMAIN workflow'.edge
                       /\ workflow'.edge[<<k, u>>] = workflow.edge[<<k, u>>]
                /\ u \in DOMAIN data_output =>
                     u \in DOMAIN data_output' /\ data_output'[u] = data_output[u]]_vars

\* the node u was popped before the node f
PoppedBefore(u, f) == \E i \in Pops(u), j \in Pops(f) : i < j

\* a dispatch has popped the function f after all its outputs, did not call
\* it and took it out of the workflow
C33_Witness ==
    /\ pc = "done" /\ raised = "" /\ call # NoCall /\ ~call.no_call
    /\ \E f \in FunctionNodes :
         /\ \A u \in Range(nodes[f].outputs) : PoppedBefore(u, f)
         /\ f \notin DOMAIN workflow.node
         /\ \A i \in 1..Len(calls) : calls[i][2] # f

\* a dispatch has popped the function g after one of its outputs and
\* before another, called it and kept its edge to the second only
SomeOutputsSettled ==
    /\ pc = "done" /\ raised = ""
    /\ \E g \in FunctionNodes : \E u, w \in Range(nodes[g].outputs) :
         /\ PoppedBefore(u, g) /\ PoppedBefore(g, w)
         /\ \E i \in 1..Len(calls) : calls[i] = <<"function", g, "returned">>
         /\ <<g, u>> \notin DOMAIN workflow.edge
         /\ <<g, w>> \in DOMAIN workflow.edge

-----------------------------------------------------------------------------
(* The methods that return a dispatcher leave their own alone.             *)

\* the step is a call of get_sub_dsp or remove_cycles, or a step of a
\* shrink_dsp, with its dispatches and its get_sub_dsp_from_workflow
SubDspStep ==
    \/ pc # "build"
    \/ /\ first_out' # <<>>
       /\ first_out'[1] \in {"get_sub_dsp", "remove_cycles", "shrink_dsp"}

\* C34: get_sub_dsp, get_sub_dsp_from_workflow, shrink_dsp and
\* remove_cycles leave the nodes, the edges and the default values of the
\* dispatcher they are called on as they are, and what they return is
\* another dispatcher
C34_SubDspLeavesDispatcher ==
    [][SubDspStep =>
         /\ DOMAIN nodes' = DOMAIN nodes
         /\ DOMAIN edges' = DOMAIN edges
         /\ default_values' = default_values
         /\ (pc' = "done" /\ raised' = "" /\ caller' = "") => sub_dsp' # <<>>]_vars

\* get_sub_dsp has returned a dispatcher with fewer nodes than the
\* dispatcher it was called on, which has a default value
C34_Witness ==
    /\ pc = "done" /\ raised = "" /\ sub_dsp # <<>>
    /\ first_out # <<>> /\ first_out[1] = "get_sub_dsp"
    /\ DOMAIN sub_dsp[1].nodes # DOMAIN nodes
    /\ DOMAIN sub_dsp[1].nodes # {}
    /\ DOMAIN default_values # {}

-----------------------------------------------------------------------------
(* The calls of one SubDispatchFunction object.                            *)

\* the input values of a call of a new object: the default values of the
\* shrunk dispatcher, updated with the arguments
FreshInputValues(f, args) ==
    [k \in {f.inputs[i] : i \in 1..Len(args)} |->
       args[CHOOSE i \in 1..Len(args) :
              /\ f.inputs[i] = k
              /\ \A j \in 1..Len(args) : f.inputs[j] = k => j <= i]]
    @@ default_values

\* C35: a call of a SubDispatchFunction works on the input values a new
\* object would work on, and ends as every earlier call of the object with
\* the same arguments has ended (with the same exception, or returning the
\* same values), the first of which was the call of a new object
C35_CallsAreIndependent ==
    (sdfun # <<>> /\ sdfun[1].built /\ call # NoCall) =>
      /\ call.initial = FreshInputValues(sdfun[1], sdfun[1].args)
      /\ (pc = "done" /\ caller = "") =>
           \A i \in 1..Len(first_out) :
             first_out[i][1] = sdfun[1].args =>
               first_out[i] = <<sdfun[1].args, raised, sdfun[1].ret>>

-----------------------------------------------------------------------------
(* SubDispatch.__call__ with shrink = True: dispatch shrinks the           *)
(* dispatcher of the object and runs the dispatcher shrink_dsp returned;   *)
(* the object then takes workflow and data_output from what dispatch       *)
(* returned and dist from its own dispatcher.  first_out is <<the dist of  *)
(* the object's dispatcher, {}, call, stage, <<>>>>.                       *)

\* __call__ up to `dsp = self.shrink_dsp(inputs, outputs, cutoff)`
SubDispatchShrink ==
    /\ pc = "build"
    /\ \E inputs \in InputMaps, outputs \in {{"c"}, {"c", "d"}} :
         /\ ShrinkStart(DOMAIN inputs, TRUE, <<outputs>>, <<>>)
         /\ first_out' = <<NoAttr, {},
                           [NoCall EXCEPT !.inputs = inputs, !.outputs = outputs],
                           "shrink", <<>>>>
    /\ UNCHANGED sdfun

\* shrink_dsp has returned: the run goes on in the new dispatcher, and
\* self.dsp.dist is what the last dispatch of shrink_dsp left
SubDispatchShrunk ==
    /\ pc = "done" /\ caller = "" /\ raised = ""
    /\ sub_dsp # <<>>
    /\ first_out # <<>> /\ first_out[4] = "shrink"
    /\ UseSubDsp
    /\ first_out' = [first_out EXCEPT ![1] = dist, ![4] = "repeat"]
    /\ pc' = "repeat"

NextSubCall ==
    \/ DeclareData
    \/ AddPlainFunction
    \/ SubDispatchShrink
    \/ ShrinkDispatch
    \/ ShrinkLoop
    \/ SubDispatchShrunk
    \/ DispatchRepeat
    \/ RunStep
    \/ RunEnd

SpecSubCall == Init /\ [][NextSubCall]_vars

\* the SubDispatch call with shrink = True has returned
SubDispatchReturned ==
    /\ pc = "done" /\ raised = "" /\ caller = ""
    /\ first_out # <<>> /\ first_out[4] = "repeat"

\* C36: after a SubDispatch call the dist attribute of the object is the
\* distance map of the run that gave its workflow and data_output: it has
\* an entry for the nodes that run visited and no other, with the
\* distances of that run
C36_AttributesOfOneRun ==
    SubDispatchReturned =>
      /\ DOMAIN first_out[1] = visited
      /\ first_out[1] = dist

-----------------------------------------------------------------------------
(* add_function calls that fail.                                           *)

\* the step is an add_function call that raises for an input or an output
\* that is a function node
AddFunctionFails ==
    /\ pc = "build"
    /\ first_out' # <<>> /\ first_out'[1] = "add_function"
    /\ raised' \in {"ValueError: Invalid input id", "ValueError: Invalid output id"}

-----------------------------------------------------------------------------
(* Termination of a dispatch.  The loop of _run goes on as long as the     *)
(* fringe has an item and the user callables return, and dispatch returns  *)
(* when the loop is over: the steps of the loop and the return are taken   *)
(* whenever they can be.  The fairness conditions are stated on what an    *)
(* iteration and the return do to popped and pc: within the loop a step    *)
(* that pops the head of the fringe is a RunStep step and a step that      *)
(* leaves the loop for "done" is a RunEnd step, and both are enabled       *)
(* whenever their guards hold.                                             *)

\* an iteration of the while loop of _run: the head of the fringe is popped
LoopStep ==
    /\ pc = "run"
    /\ fringe # <<>>
    /\ popped' = Append(popped, <<Head(fringe)[3], Head(fringe)[1]>>)

\* the loop is over (break, or the fringe is empty) and dispatch returns
LoopEnd ==
    /\ pc = "break" \/ (pc = "run" /\ fringe = <<>>)
    /\ pc' = "done"

SpecLive == Init /\ [][NextCut]_vars /\ WF_popped(LoopStep) /\ WF_pc(LoopEnd)

\* the guards of the loop are those of RunStep and RunEnd
LoopEnabled ==
    /\ (pc = "run" /\ fringe # <<>>) => ENABLED <<RunStep>>_vars
    /\ (pc = "break" \/ (pc = "run" /\ fringe = <<>>)) => ENABLED <<RunEnd>>_vars

\* the node w is pushed by the step: the fringe has one more item of w
Pushed(w) ==
    Cardinality({i \in 1..Len(fringe') : fringe'[i][3] = w})
      > Cardinality({i \in 1..Len(fringe) : fringe[i][3] = w})

\* a step of the loop pushes a node only if the node has no distance yet
\* and was not seen, or is seen at a smaller distance than before
PushesDecrease ==
    [][(pc = "run" /\ pc' = "run") =>
         \A w \in DOMAIN nodes :
           Pushed(w) =>
             /\ w \notin DOMAIN dist'
             /\ w \in DOMAIN seen => seen'[w] < seen[w]]_vars

\* C38: a dispatch that has started ends, on graphs with cycles too and
\* for any inputs, outputs, cutoff and wildcard: a node that has a distance
\* is not pushed again, a node on the fringe is pushed again only at a
\* smaller distance, and the loop and dispatch come to their end
C38_DispatchTerminates ==
    /\ PushesDecrease
    /\ (pc = "run") ~> (pc = "done")

\* a dispatch on a dispatcher with a cycle has returned
C38_Witness ==
    /\ pc = "done" /\ raised = "" /\ call # NoCall
    /\ OnCycle(DOMAIN edges) # {}
    /\ OnCycle(DOMAIN edges) \cap DOMAIN dist # {}

-----------------------------------------------------------------------------
(* Two dispatch calls on one Dispatcher object.  The per-run state         *)
(* (workflow, data_output, dist, _visited, _targets, ...) is kept on the   *)
(* object; fringe and seen are locals of the call.  A call of one thread   *)
(* is suspended between its _init_run and its _run, a call of another      *)
(* thread runs from its start to its return, and the first call goes on:   *)
(* its _run binds whatever the object holds by then.  first_out keeps the  *)
(* suspended call, <<"suspended", fringe, seen, call, workflow, visited,   *)
(* dist>>, and after the resumption what the other call returned,          *)
(* <<"resumed", call, workflow, data_output, raised>>.                     *)

\* dispatch(inputs): a first call, a call after a call that has returned,
\* or the call of the other thread, which gives values to the same inputs
DispatchShared ==
    /\ \/ pc \in {"build", "done"} /\ first_out = <<>>
       \/ pc = "suspended"
    /\ \E inputs \in InputMaps :
         /\ pc = "suspended" => DOMAIN inputs = DOMAIN first_out[4].inputs
         /\ DispatchStart(inputs, {}, <<>>, FALSE, FALSE)

\* the thread of the call is suspended once _init_run has returned
Suspend ==
    /\ pc = "run" /\ popped = <<>> /\ first_out = <<>> /\ caller = ""
    /\ first_out' = <<"suspended", fringe, seen, call, workflow, visited, dist>>
    /\ pc' = "suspended"
    /\ fringe' = <<>>
    /\ seen' = NoAttr
    /\ UNCHANGED <<dsp_vars, workflow, data_output, dist, visited, targets,
                   cutoff, wildcards, wait_in, call, raised, calls, popped,
                   obj_vars>>

\* a resumption that finds the per-run state the call had initialised
ResumeOwn ==
    /\ pc = "done" /\ first_out # <<>> /\ first_out[1] = "suspended"
    /\ fringe' = first_out[2]
    /\ seen' = first_out[3]
    /\ call' = first_out[4]
    /\ workflow' = first_out[5]
    /\ visited' = first_out[6]
    /\ dist' = first_out[7]
    /\ data_output' = NoAttr
    /\ pc' = "run"
    /\ raised' = ""
    /\ first_out' = <<"resumed", call, workflow, data_output, raised>>
    /\ UNCHANGED <<dsp_vars, targets, cutoff, wildcards, wait_in, calls,
                   popped, obj_vars>>

\* the other call has returned and the suspended call enters _run with
\* its own fringe, seen and no_call; the rest is read from the object
Resume ==
    /\ pc = "done" /\ first_out # <<>> /\ first_out[1] = "suspended"
    /\ fringe' = first_out[2]
    /\ seen' = first_out[3]
    /\ call' = first_out[4]
    /\ pc' = "run"
    /\ raised' = ""
    /\ first_out' = <<"resumed", call, workflow, data_output, raised>>
    /\ UNCHANGED <<dsp_vars, workflow, data_output, dist, visited, targets,
                   cutoff, wildcards, wait_in, calls, popped, obj_vars>>

NextShared ==
    AddPlainFunction \/ DispatchShared \/ Suspend \/ Resume \/ RunStep \/ RunEnd

SpecShared == Init /\ [][NextShared]_vars

\* the inputs of the call c that are data nodes of the dispatcher
OwnInputs(c) == {k \in DOMAIN c.inputs \cap DOMAIN nodes : nodes[k].type = "data"}

\* the workflow and the data_output carry the input values of the call c
CarriesInputsOf(c) ==
    \A k \in OwnInputs(c) :
      /\ <<START, k>> \in DOMAIN workflow.edge
      /\ workflow.edge[<<START, k>>] = [value |-> c.inputs[k]]
      /\ k \in DOMAIN data_output => data_output[k] = c.inputs[k]

\* a call has returned, after an interleaving or not
Interleaved == first_out # <<>> /\ first_out[1] = "resumed"

\* C39: a dispatch that runs alone returns a workflow and a data_output
\* that carry its own input values, whatever ran on the object before; a
\* dispatch that was suspended while another call ran on the same object
\* returns the objects of the other call: they carry the input values of
\* the other call and, if the other call returned without error, every
\* workflow edge and every value of a node that it returned
C39_RunStateIsShared ==
    /\ (pc = "done" /\ raised = "" /\ call # NoCall /\ first_out = <<>>) =>
         CarriesInputsOf(call)
    /\ (pc = "done" /\ Interleaved) =>
         /\ CarriesInputsOf(first_out[2])
         /\ first_out[5] = "" =>
              /\ DOMAIN first_out[3].edge \subseteq DOMAIN workflow.edge
              /\ \A k \in DOMAIN first_out[4] \cap DOMAIN nodes :
                   k \in DOMAIN data_output /\ data_output[k] = first_out[4][k]

\* both calls have returned without error and the suspended call returned,
\* for an input of its own, the value the other call was given
C39_Witness ==
    /\ pc = "done" /\ raised = "" /\ Interleaved /\ first_out[5] = ""
    /\ \E k \in OwnInputs(call) :
         /\ k \in DOMAIN data_output
         /\ data_output[k] # call.inputs[k]
         /\ data_output[k] = first_out[2].inputs[k]
    /\ ~CarriesInputsOf(call)

====
